---------------------------- MODULE Spec2Model ----------------------------
(***************************************************************************)
(* A model of the RPC resource tree of ykman (ykman/rpc): the two device   *)
(* enumerators (DevicesNode over USB, ReadersNode over smartcard readers), *)
(* the device nodes, the connection node, the FIDO2 sub-tree and the       *)
(* YubiOTP sub-tree.                                                       *)
(*                                                                         *)
(* Python dicts are modelled as sets of <<key, value>> pairs with unique   *)
(* keys.  The sub-trees share no state (RootNode only composes them), so   *)
(* every specification below follows the requests sent to one sub-tree.    *)
(***************************************************************************)
EXTENDS Integers, Sequences, FiniteSets, TLC

----------------------------------------------------------------------------
(* Bounds of the model.                                                    *)

\* number of physical USB devices that can be attached
NumUsb == 2
\* number of smartcard readers that can be attached (besides the YubiKey's
\* own CCID pseudo-reader, which is reader 0)
NumReaders == 2
\* number of distinct identifier strings (serials and os.urandom(4).hex())
MaxId == 3

----------------------------------------------------------------------------
(* Dicts as sets of pairs.                                                 *)

Keys(m) == {p[1] : p \in m}

Values(m) == {p[2] : p \in m}

Lookup(m, k) == (CHOOSE p \in m : p[1] = k)[2]

\* m[k] = v
Put(m, k, v) == {p \in m : p[1] # k} \cup {<<k, v>>}

IsDict(m) == \A p \in m : \A q \in m : p[1] = q[1] => p = q

----------------------------------------------------------------------------
(* The physical world the enumerators probe.                               *)

UsbDevs == 1..NumUsb

\* reader 0 is the pseudo-reader a YubiKey itself shows up as
AllReaders == 0..NumReaders

IdSpace == 1..MaxId

\* info.serial of a USB device: odd devices report a serial, even ones none
Serial(d) == IF d % 2 = 1 THEN d ELSE 0

\* 2^n
RECURSIVE Pow2(_)
Pow2(n) == IF n = 0 THEN 1 ELSE 2 * Pow2(n - 1)

RECURSIVE SetSum(_)
SetSum(S) == IF S = {} THEN 0
             ELSE LET x == CHOOSE y \in S : TRUE IN x + SetSum(S \ {x})

\* scan_devices()[1]: a hash of the fingerprints of the attached devices.
\* It is injective on the small universe; the seed stands for the process'
\* hash randomisation: with seed 0 the empty device set hashes to 0, with
\* seed 1 the full one does.
ScanState(S, sd) == (SetSum({Pow2(d - 1) : d \in S}) + sd) % Pow2(NumUsb)

VARIABLES
    subtree,        \* the sub-tree the requests of this behaviour go to
    op,             \* the handler step taken last
    usb,            \* the USB devices attached now
    seed,           \* hash seed of the process
    caching,        \* _ScanDevices._caching
    scan_state,     \* _ScanDevices._state
    list_state,     \* DevicesNode._list_state
    devices,        \* DevicesNode._devices: id -> summary
    device_mapping, \* DevicesNode._device_mapping: id -> device
    dn_pc,          \* where the DevicesNode request being served stands
    nfc,            \* the readers attached now
    rd_state,       \* ReadersNode._state
    readers,        \* ReadersNode._readers: id -> summary
    reader_mapping, \* ReadersNode._reader_mapping: id -> reader
    rebuilt,        \* the last list_children rebuilt its mappings
    probed,         \* the last token evaluation probed the hardware
    listed,         \* a list_children call has returned before
    chg_enter,      \* the device set changed since the request began
    chg_list,       \* ... since the request of the last listing began
    prev_set,       \* the device set seen by the last listing
    prev_clean,     \* no change during the request of the last listing
    outcome,        \* what the last request gave its caller
    raised,         \* a transport error was raised while serving it
    nosuch,         \* the name carried by its NoSuchNodeException
    constructed,    \* it constructed a child node
    dv_dev,         \* the device (or reader) the device node wraps
    dv_id,          \* the identifier its parent issued for it
    dv_supports,    \* connection types self._device supports
    dv_interfaces,  \* UsbDeviceNode._interfaces
    dv_info,        \* AbstractDeviceNode._info: none, noserial or serial
    dv_child,       \* RpcNode._child of the device node
    dv_child_name,  \* RpcNode._child_name of the device node
    dv_open,        \* open connections made through the node, per type
    dv_acq,         \* the last child request: name, device count, I/O done
    hw_version,     \* firmware version of the device behind the connection
    hw_caps,        \* capabilities the device has enabled on the transport
    cn_alive,       \* a ConnectionNode is open
    cn_open,        \* the connection the node owns has not been closed
    cn_transport,   \* ConnectionNode._transport
    cn_connection,  \* ConnectionNode._connection: its kind
    cn_info,        \* ConnectionNode._info
    cn_open_info,   \* the info the node was constructed with
    cn_child,       \* RpcNode._child of the connection node
    cn_child_name,  \* RpcNode._child_name of the connection node
    cn_nav,         \* the child name the last navigation asked for
    cn_changed,     \* the device was reconfigured since the node was opened
    hw_creds,       \* the credentials the device holds: <<rp, credential>>
    hw_templates,   \* the fingerprint templates it holds: id -> name
    fd_child,       \* RpcNode._child_name of the FidoNode
    rps,            \* CredentialsRpsNode._rps (its keys)
    rps_child,      \* the relying party the resolved CredentialsRpNode is of
    creds,          \* CredentialsRpNode._creds (its keys)
    rp_child,       \* the credential the resolved CredentialNode is of
    templates,      \* FingerprintsNode._templates: id -> name
    fps_child,      \* the template the resolved FingerprintNode is of
    fp_name,        \* FingerprintNode.name
    fd_target,      \* the credential or template the last action was about
    fd_external,    \* a credential was made since the caches were read
    bio_pc,         \* where FingerprintsNode.add stands
    bio_name,       \* add: name
    bio_template,   \* add: template_id (0 is None)
    en_template,    \* enroller.template_id (0 is None)
    en_remaining,   \* enroller.remaining ("none" is None)
    bio_event,      \* the cancellation event is set
    bio_raced,      \* ... and was set while the pending attempt ran
    bio_code,       \* the code of the CaptureError being handled
    bio_log,        \* the signals emitted and the capture attempts made
    bio_result,     \* the template id of the result returned (0: none)
    bio_named,      \* this add has set the name on the device
    bio_before,     \* FingerprintsNode._templates when add began
    hw_slots,       \* the configuration of the device's two OTP slots
    otp_child,      \* the slot the resolved SlotNode is of (0: no child)
    slot_state,     \* SlotNode._state
    otp_external,   \* a slot was programmed since _state was read
    hw_pin,         \* the PIN the device accepts, 0 when none is set
    fd_pin,         \* FidoNode._pin, 0 for None
    pn_child,       \* the child the FidoNode holds resolved
    pn_tokens,      \* the permissions of the tokens derived so far
    pn_session      \* the session of the child: protocol and token used

enumVars == <<usb, seed, caching, scan_state, list_state, devices,
              device_mapping, dn_pc, nfc, rd_state, readers, reader_mapping,
              rebuilt, probed, listed, chg_enter, chg_list, prev_set,
              prev_clean>>

usbVars == <<usb, seed, caching, scan_state, list_state, devices,
             device_mapping, dn_pc>>

nfcVars == <<nfc, rd_state, readers, reader_mapping>>

histVars == <<rebuilt, probed, listed, chg_enter, chg_list, prev_set,
              prev_clean>>

resVars == <<outcome, raised, nosuch, constructed>>

devVars == <<dv_dev, dv_id, dv_supports, dv_interfaces, dv_info, dv_child,
             dv_child_name, dv_open, dv_acq>>

connVars == <<hw_version, hw_caps, cn_alive, cn_open, cn_transport, cn_connection,
              cn_info, cn_open_info, cn_child, cn_child_name, cn_nav,
              cn_changed>>

fidoVars == <<hw_creds, hw_templates, fd_child, rps, rps_child, creds,
              rp_child, templates, fps_child, fp_name, fd_target,
              fd_external>>

bioVars == <<bio_pc, bio_name, bio_template, en_template, en_remaining,
             bio_event, bio_raced, bio_code, bio_log, bio_result, bio_named,
             bio_before>>

otpVars == <<hw_slots, otp_child, slot_state, otp_external>>

pinVars == <<hw_pin, fd_pin, pn_child, pn_tokens, pn_session>>

\* the nodes below the device nodes
lowerVars == <<connVars, fidoVars, bioVars, otpVars, pinVars>>

\* what the steps of the connection node leave alone below it
notConnVars == <<fidoVars, bioVars, otpVars, pinVars>>

\* what the steps of the FIDO2 sub-tree leave alone
notFidoVars == <<subtree, enumVars, devVars, connVars, bioVars, otpVars,
                 pinVars>>

\* what the steps of the YubiOTP sub-tree leave alone
notOtpVars == <<subtree, enumVars, devVars, connVars, fidoVars, bioVars,
                pinVars>>

\* what the steps of FingerprintsNode.add leave alone
notBioVars == <<subtree, enumVars, devVars, connVars, hw_creds, fd_child,
                rps, rps_child, creds, rp_child, fps_child, fp_name,
                fd_target, fd_external, raised, nosuch, constructed,
                otpVars, pinVars>>

\* what the enumerators' steps leave alone
nonEnumVars == <<resVars, devVars, lowerVars>>

----------------------------------------------------------------------------
(* ReadersNode                                                             *)

\* YK_READER_NAME not in d.reader.name.lower()
Filtered(rs) == {r \in rs : r # 0}

\* dict(name=device.reader.name)
ReaderSummary(r) == [name |-> r]

\* the loop of list_children: every reader gets os.urandom(4).hex(), with no
\* check against the identifiers already handed out in this rebuild
RECURSIVE ReadersRebuild(_, _)
ReadersRebuild(todo, m) ==
    IF todo = {} THEN {m}
    ELSE UNION { UNION { ReadersRebuild(todo \ {r}, Put(m, i, r))
                         : i \in IdSpace }
                 : r \in todo }

ReadersInit ==
    /\ nfc \in SUBSET AllReaders
    /\ rd_state = {}
    /\ readers = {}
    /\ reader_mapping = {}

ReadersListChildren ==
    /\ subtree = "nfc"
    /\ LET devs == Filtered(nfc)
           state == devs
       IN  /\ IF rd_state # state
              THEN /\ \E m \in ReadersRebuild(devs, {}) :
                        /\ reader_mapping' = m
                        /\ readers' = {<<p[1], ReaderSummary(p[2])>> : p \in m}
                   /\ rd_state' = state
                   /\ rebuilt' = TRUE
              ELSE /\ UNCHANGED <<rd_state, readers, reader_mapping>>
                   /\ rebuilt' = FALSE
           /\ prev_set' = devs
    /\ op' = "list_children"
    /\ UNCHANGED nonEnumVars
    /\ listed' = TRUE
    /\ chg_list' = FALSE
    /\ prev_clean' = TRUE
    /\ UNCHANGED <<nfc, usbVars, probed, chg_enter, subtree>>

ReaderPlug(r) ==
    /\ subtree = "nfc"
    /\ r \notin nfc
    /\ nfc' = nfc \cup {r}
    /\ op' = "plug"
    /\ UNCHANGED nonEnumVars
    /\ chg_list' = (chg_list \/ r # 0)
    /\ UNCHANGED <<rd_state, readers, reader_mapping, usbVars, rebuilt,
                   probed, listed, chg_enter, prev_set, prev_clean, subtree>>

ReaderUnplug(r) ==
    /\ subtree = "nfc"
    /\ r \in nfc
    /\ nfc' = nfc \ {r}
    /\ op' = "unplug"
    /\ UNCHANGED nonEnumVars
    /\ chg_list' = (chg_list \/ r # 0)
    /\ UNCHANGED <<rd_state, readers, reader_mapping, usbVars, rebuilt,
                   probed, listed, chg_enter, prev_set, prev_clean, subtree>>

----------------------------------------------------------------------------
(* _ScanDevices and DevicesNode                                            *)

\* _ScanDevices.__call__: the token the evaluation returns
GetState(c, st, hw) == IF ~c \/ st = 0 THEN hw ELSE st

\* ... and whether it called scan_devices()
Probes(c, st) == ~c \/ st = 0

\* dict(pid=dev.pid, name=name, serial=info.serial); the name is a function
\* of the other two
UsbSummary(d) == [pid |-> d, serial |-> Serial(d)]

\* dev_id = str(info.serial) if info.serial else os.urandom(4).hex()
\* while dev_id in self._device_mapping: dev_id = os.urandom(4).hex()
DevIdChoices(d, m) ==
    IF Serial(d) # 0 /\ Serial(d) \notin Keys(m)
    THEN {Serial(d)}
    ELSE IdSpace \ Keys(m)

\* the loop of list_children over list_all_devices(), in any order
RECURSIVE DevicesRebuild(_, _)
DevicesRebuild(todo, m) ==
    IF todo = {} THEN {m}
    ELSE UNION { UNION { DevicesRebuild(todo \ {d}, Put(m, i, d))
                         : i \in DevIdChoices(d, m) }
                 : d \in todo }

\* a listing that rebuilds whatever the token is
DevicesStaleAlways(state, ls) == TRUE

\* if state != self._list_state
DevicesStale(state, ls) == state # ls

DevicesInit ==
    /\ usb \in SUBSET UsbDevs
    /\ seed \in {0, 1}
    /\ caching = FALSE
    /\ scan_state = 0
    /\ list_state = 0
    /\ devices = {}
    /\ device_mapping = {}
    /\ dn_pc = "idle"

\* DevicesNode.__call__ entering `with self._get_state`; the request is a
\* scan action, a get (get_data, then list_children) or a listing
DevicesEnter(req) ==
    /\ subtree = "usb"
    /\ dn_pc = "idle"
    /\ caching' = TRUE
    /\ scan_state' = 0
    /\ dn_pc' = req
    /\ op' = "enter"
    /\ UNCHANGED nonEnumVars
    /\ chg_enter' = FALSE
    /\ UNCHANGED <<usb, seed, list_state, devices, device_mapping, nfcVars,
                   rebuilt, probed, listed, chg_list, prev_set, prev_clean,
                   subtree>>

\* DevicesNode.scan
DevicesScan ==
    /\ subtree = "usb"
    /\ dn_pc = "scan"
    /\ scan_state' = GetState(caching, scan_state, ScanState(usb, seed))
    /\ probed' = Probes(caching, scan_state)
    /\ dn_pc' = "exit"
    /\ op' = "scan"
    /\ UNCHANGED nonEnumVars
    /\ UNCHANGED <<usb, seed, caching, list_state, devices, device_mapping,
                   nfcVars, rebuilt, listed, chg_enter, chg_list, prev_set,
                   prev_clean, subtree>>

\* DevicesNode.get_data, which the get action calls before list_children
DevicesGetData ==
    /\ subtree = "usb"
    /\ dn_pc = "get"
    /\ scan_state' = GetState(caching, scan_state, ScanState(usb, seed))
    /\ probed' = Probes(caching, scan_state)
    /\ dn_pc' = "list"
    /\ op' = "get_data"
    /\ UNCHANGED nonEnumVars
    /\ UNCHANGED <<usb, seed, caching, list_state, devices, device_mapping,
                   nfcVars, rebuilt, listed, chg_enter, chg_list, prev_set,
                   prev_clean, subtree>>

DevicesListChildren ==
    /\ subtree = "usb"
    /\ dn_pc = "list"
    /\ LET state == GetState(caching, scan_state, ScanState(usb, seed))
       IN  /\ scan_state' = state
           /\ probed' = Probes(caching, scan_state)
           /\ IF DevicesStale(state, list_state)
              THEN /\ \E m \in DevicesRebuild(usb, {}) :
                        /\ device_mapping' = m
                        /\ devices' = {<<p[1], UsbSummary(p[2])>> : p \in m}
                   /\ list_state' = state
                   /\ rebuilt' = TRUE
              ELSE /\ UNCHANGED <<list_state, devices, device_mapping>>
                   /\ rebuilt' = FALSE
    /\ dn_pc' = "exit"
    /\ op' = "list_children"
    /\ UNCHANGED nonEnumVars
    /\ listed' = TRUE
    /\ chg_list' = chg_enter
    /\ prev_set' = usb
    /\ prev_clean' = ~chg_enter
    /\ UNCHANGED <<usb, seed, caching, nfcVars, chg_enter, subtree>>

\* DevicesNode.__call__ leaving the with block
DevicesExit ==
    /\ subtree = "usb"
    /\ dn_pc = "exit"
    /\ caching' = FALSE
    /\ dn_pc' = "idle"
    /\ op' = "exit"
    /\ UNCHANGED nonEnumVars
    /\ UNCHANGED <<usb, seed, scan_state, list_state, devices,
                   device_mapping, nfcVars, histVars, subtree>>

UsbPlug(d) ==
    /\ subtree = "usb"
    /\ d \notin usb
    /\ usb' = usb \cup {d}
    /\ op' = "plug"
    /\ UNCHANGED nonEnumVars
    /\ chg_enter' = TRUE
    /\ chg_list' = TRUE
    /\ UNCHANGED <<seed, caching, scan_state, list_state, devices,
                   device_mapping, dn_pc, nfcVars, rebuilt, probed, listed,
                   prev_set, prev_clean, subtree>>

UsbUnplug(d) ==
    /\ subtree = "usb"
    /\ d \in usb
    /\ usb' = usb \ {d}
    /\ op' = "unplug"
    /\ UNCHANGED nonEnumVars
    /\ chg_enter' = TRUE
    /\ chg_list' = TRUE
    /\ UNCHANGED <<seed, caching, scan_state, list_state, devices,
                   device_mapping, dn_pc, nfcVars, rebuilt, probed, listed,
                   prev_set, prev_clean, subtree>>

----------------------------------------------------------------------------
(* The enumerators' specification.                                         *)

ResInit ==
    /\ outcome = "none"
    /\ raised = FALSE
    /\ nosuch = "none"
    /\ constructed = FALSE

\* no device node has been navigated to
DeviceIdle ==
    /\ dv_dev = 0
    /\ dv_id = 0
    /\ dv_supports = {}
    /\ dv_interfaces = {}
    /\ dv_info = "none"
    /\ dv_child = "none"
    /\ dv_child_name = "none"
    /\ dv_open = [t \in {"ccid", "otp", "fido"} |-> 0]
    /\ dv_acq = [name |-> "none", count |-> 1, log |-> <<>>]

\* no connection node has been opened
ConnIdle ==
    /\ hw_version = <<0, 0, 0>>
    /\ hw_caps = {}
    /\ cn_alive = FALSE
    /\ cn_open = FALSE
    /\ cn_transport = "none"
    /\ cn_connection = "none"
    /\ cn_info = [version |-> <<0, 0, 0>>, caps |-> {}]
    /\ cn_open_info = [version |-> <<0, 0, 0>>, caps |-> {}]
    /\ cn_child = "none"
    /\ cn_child_name = "none"
    /\ cn_nav = "none"
    /\ cn_changed = FALSE

\* no FidoNode has been constructed
FidoIdle ==
    /\ hw_creds = {}
    /\ hw_templates = {}
    /\ fd_child = "none"
    /\ rps = {}
    /\ rps_child = 0
    /\ creds = {}
    /\ rp_child = 0
    /\ templates = {}
    /\ fps_child = 0
    /\ fp_name = "none"
    /\ fd_target = 0
    /\ fd_external = FALSE

\* no add action is running
BioIdle ==
    /\ bio_pc = "idle"
    /\ bio_name = "none"
    /\ bio_template = 0
    /\ en_template = 0
    /\ en_remaining = "none"
    /\ bio_event = FALSE
    /\ bio_raced = FALSE
    /\ bio_code = "none"
    /\ bio_log = <<>>
    /\ bio_result = 0
    /\ bio_named = FALSE
    /\ bio_before = {}

\* no YubiOtpNode has been constructed
OtpIdle ==
    /\ hw_slots = <<"empty", "empty">>
    /\ otp_child = 0
    /\ slot_state = <<"empty", "empty">>
    /\ otp_external = FALSE

\* no FidoNode is followed for its PIN
PinIdle ==
    /\ hw_pin = 0
    /\ fd_pin = 0
    /\ pn_child = "none"
    /\ pn_tokens = <<>>
    /\ pn_session = [kind |-> "none", token |-> 0]

LowerIdle ==
    /\ ConnIdle
    /\ FidoIdle
    /\ BioIdle
    /\ PinIdle
    /\ OtpIdle

HistInit ==
    /\ rebuilt = FALSE
    /\ probed = FALSE
    /\ listed = FALSE
    /\ chg_enter = FALSE
    /\ chg_list = FALSE
    /\ prev_set = {}
    /\ prev_clean = TRUE

EnumInit ==
    /\ subtree \in {"usb", "nfc"}
    /\ op = "init"
    /\ DevicesInit
    /\ ReadersInit
    /\ HistInit
    /\ subtree = "usb" => nfc = {}
    /\ subtree = "nfc" => usb = {} /\ seed = 0
    /\ ResInit
    /\ DeviceIdle
    /\ LowerIdle

EnumNext ==
    \/ \E req \in {"scan", "get", "list"} : DevicesEnter(req)
    \/ DevicesScan
    \/ DevicesGetData
    \/ DevicesListChildren
    \/ DevicesExit
    \/ \E d \in UsbDevs : UsbPlug(d)
    \/ \E d \in UsbDevs : UsbUnplug(d)
    \/ ReadersListChildren
    \/ \E r \in AllReaders : ReaderPlug(r)
    \/ \E r \in AllReaders : ReaderUnplug(r)

vars == <<subtree, op, enumVars, resVars, devVars, lowerVars>>

SpecEnum == EnumInit /\ [][EnumNext]_vars

----------------------------------------------------------------------------
(* Claims about the enumerators.                                           *)

\* the enumerator the behaviour follows: its device set as the listing sees
\* it, its recorded token and its two mappings
CurSet == IF subtree = "usb" THEN usb ELSE Filtered(nfc)

\* C1: for both enumerators, a list_children call that follows an earlier
\* one with no change of the physical device set in between (counted from
\* the start of the request that served the earlier listing) returns the
\* same mapping, keeps the recorded generation token, and rebuilds nothing:
\* no identifier is issued again.
C1_StableListing ==
    [][ (op' = "list_children" /\ listed /\ ~chg_list)
        => /\ devices' = devices
           /\ device_mapping' = device_mapping
           /\ list_state' = list_state
           /\ readers' = readers
           /\ reader_mapping' = reader_mapping
           /\ rd_state' = rd_state
           /\ ~rebuilt' ]_vars

\* a second USB listing of an unchanged, non-empty device set has returned
C1_Witness ==
    /\ subtree = "usb"
    /\ op = "list_children"
    /\ ~rebuilt
    /\ ~chg_list
    /\ devices # {}
    /\ Values(device_mapping) = usb

\* C2: for both enumerators, when the device set seen by a list_children
\* call differs from the one seen by the previous call, the recorded token
\* changes, the mapping is rebuilt, and no identifier that was issued for a
\* device that is now absent is a key of the rebuilt mapping.
C2_ChangeInvalidates ==
    [][ (op' = "list_children" /\ listed /\ prev_clean /\ ~chg_enter
         /\ prev_set # CurSet)
        => /\ rebuilt'
           /\ subtree = "usb" => list_state' # list_state
           /\ subtree = "nfc" => rd_state' # rd_state
           /\ \A p \in device_mapping \cup reader_mapping :
                 p[2] \notin CurSet
                     => p[1] \notin Keys(device_mapping' \cup reader_mapping')
      ]_vars

\* the part of C2 the code does guarantee: the token changes and the
\* mapping is rebuilt from devices now present
C2_TokenAndRebuild ==
    [][ (op' = "list_children" /\ listed /\ prev_clean /\ ~chg_enter
         /\ prev_set # CurSet)
        => /\ rebuilt'
           /\ subtree = "usb" => list_state' # list_state
           /\ subtree = "nfc" => rd_state' # rd_state
           /\ Values(device_mapping' \cup reader_mapping') \subseteq CurSet
      ]_vars

----------------------------------------------------------------------------
(* RpcNode: child resolution of the base class.                            *)

\* get_child: a resolved child of another name is closed first
ClosesChild(child, child_name, name) == child # "none" /\ child_name # name

\* get_child: the child is created when none is resolved (any more)
CreatesChild(child, child_name, name) ==
    child = "none" \/ child_name # name

----------------------------------------------------------------------------
(* AbstractDeviceNode, UsbDeviceNode, ReaderDeviceNode                     *)

\* the child names, in the order get_data tries their connection types:
\* SmartCardConnection (ccid), OtpConnection (otp), FidoConnection (fido)
ConnTypes == {"ccid", "otp", "fido"}

ConnOrder == <<"ccid", "otp", "fido">>

\* the transport errors the device nodes catch
TransportErrors == {"SmartcardException", "OSError"}

\* where a request can fail: opening a connection, reading the device info,
\* opening the second connection of ReaderDeviceNode.fido, or anywhere in
\* the call the child serves
FaultPoints == {"none", "open", "read", "open2", "call"}

\* the connections open through one device node are capped
MaxOpen == 2

\* the number of open connections
OpenCount(open) == open["ccid"] + open["otp"] + open["fido"]

\* the device is attached (without it no I/O succeeds)
Attached == IF subtree = "usb" THEN dv_dev \in usb ELSE dv_dev \in nfc

\* read_info: the identity the device reports
InfoOf(d) == IF subtree = "usb" /\ Serial(d) # 0 THEN "serial" ELSE "noserial"

\* a listing that leaves out the child whose call failed
DeviceChildrenHidesFailed(tree, interfaces) ==
    {n \in ConnTypes : /\ tree = "usb" => n \in interfaces
                       /\ tree = "nfc" => n \in {"ccid", "fido"}
                       /\ n # nosuch}

\* the @child conditions: UsbDeviceNode offers what the declared interfaces
\* support, ReaderDeviceNode offers ccid and fido
DeviceChildren(tree, interfaces) ==
    IF tree = "usb" THEN {n \in ConnTypes : n \in interfaces}
    ELSE {"ccid", "fido"}

\* AbstractDeviceNode.get_data: the first connection type the device supports
FirstSupported(supports) ==
    IF \E i \in 1..3 : ConnOrder[i] \in supports
    THEN ConnOrder[CHOOSE i \in 1..3 :
                     /\ ConnOrder[i] \in supports
                     /\ \A j \in 1..(i - 1) : ConnOrder[j] \notin supports]
    ELSE "none"

\* AbstractDeviceNode.get_data: what it raises, "ok" when it returns
GetDataRaw(supports, at, exc) ==
    IF FirstSupported(supports) = "none" THEN "ValueError"
    ELSE IF at \in {"open", "read"} THEN exc
    ELSE "ok"

\* the calls that open and close a connection of each type
OpenCall == [ccid |-> "open_ccid", otp |-> "open_otp", fido |-> "open_fido"]

CloseCall ==
    [ccid |-> "close_ccid", otp |-> "close_otp", fido |-> "close_fido"]

\* AbstractDeviceNode.get_data: the calls it makes; the with block closes
\* the connection it opened, also when read_info raises
GetDataCalls(supports, at) ==
    LET t == FirstSupported(supports)
    IN  IF t = "none" THEN <<>>
        ELSE IF at = "open" THEN <<OpenCall[t]>>
        ELSE <<OpenCall[t], "read_info", CloseCall[t]>>

\* ReaderDeviceNode.get_data: any exception becomes dict(present=False)
ReaderGetData(raw) == IF raw = "ok" THEN "ok" ELSE "absent"

\* a handler that catches OSError only
CatchesOsErrorOnly(raw) == raw = "OSError"

\* AbstractDeviceNode.__call__: except (SmartcardException, OSError)
Catches(raw) == raw \in TransportErrors

\* an acquisition that re-resolves by serial before trying the handle
UsbPathSerialFirst(type, supports, info) ==
    IF info = "serial" THEN "serial"
    ELSE IF type \in supports THEN "direct"
    ELSE "unique"

\* UsbDeviceNode._create_connection: how the connection is acquired
UsbPath(type, supports, info) ==
    IF type \in supports THEN "direct"
    ELSE IF info = "serial" THEN "serial"
    ELSE "unique"

\* UsbDeviceNode._create_connection: the calls made to get the connection
UsbCalls(path) ==
    IF path = "direct" THEN <<"open_connection">>
    ELSE IF path = "serial" THEN <<"connect_to_device(serial)">>
    ELSE <<"scan_devices", "connect_to_device()">>

\* creating the child `name`: what is raised ("ok" when the node is
\* constructed), the connections left open by it and the calls it made.
\* n is the number of attached devices whose interfaces support the type.
UsbCreate(name, supports, info, at, exc, n) ==
    LET path == UsbPath(name, supports, info)
    IN  IF path = "unique" /\ n # 1
        THEN [raw |-> "ValueError", opened |-> {}, log |-> <<"scan_devices">>]
        ELSE IF at = "open"
        THEN [raw |-> exc, opened |-> {}, log |-> UsbCalls(path)]
        ELSE IF info = "none" /\ at = "read"
        THEN [raw |-> exc, opened |-> {name},
              log |-> UsbCalls(path) \o <<"read_info">>]
        ELSE [raw |-> "ok", opened |-> {name},
              log |-> IF info = "none"
                      THEN UsbCalls(path) \o <<"read_info">>
                      ELSE UsbCalls(path)]

\* a fido child whose probe is opened without the with block, as the ccid
\* child opens its connection
ReaderCreateLeaksProbe(name, at, exc) ==
    IF at = "open"
    THEN [raw |-> exc, opened |-> {}, log |-> <<"open_ccid">>]
    ELSE IF at = "read"
    THEN [raw |-> exc, opened |-> {"ccid"},
          log |-> <<"open_ccid", "read_info">>]
    ELSE IF name = "ccid"
    THEN [raw |-> "ok", opened |-> {"ccid"},
          log |-> <<"open_ccid", "read_info">>]
    ELSE IF at = "open2"
    THEN [raw |-> exc, opened |-> {},
          log |-> <<"open_ccid", "read_info", "close_ccid", "open_fido">>]
    ELSE [raw |-> "ok", opened |-> {"fido"},
          log |-> <<"open_ccid", "read_info", "close_ccid", "open_fido">>]

\* ReaderDeviceNode.ccid and ReaderDeviceNode.fido
ReaderCreate(name, at, exc) ==
    IF name = "ccid"
    THEN IF at = "open"
         THEN [raw |-> exc, opened |-> {}, log |-> <<"open_ccid">>]
         ELSE IF at = "read"
         THEN [raw |-> exc, opened |-> {"ccid"},
               log |-> <<"open_ccid", "read_info">>]
         ELSE [raw |-> "ok", opened |-> {"ccid"},
               log |-> <<"open_ccid", "read_info">>]
    ELSE IF at = "open"
         THEN [raw |-> exc, opened |-> {}, log |-> <<"open_ccid">>]
         ELSE IF at = "read"
         THEN [raw |-> exc, opened |-> {},
               log |-> <<"open_ccid", "read_info", "close_ccid">>]
         ELSE IF at = "open2"
         THEN [raw |-> exc, opened |-> {},
               log |-> <<"open_ccid", "read_info", "close_ccid",
                         "open_fido">>]
         ELSE [raw |-> "ok", opened |-> {"fido"},
               log |-> <<"open_ccid", "read_info", "close_ccid",
                         "open_fido">>]

\* DevicesNode.__call__ serving a listing request from entering the caching
\* scope to leaving it, taken as one step
DevicesServeList ==
    /\ subtree = "usb"
    /\ dn_pc = "idle"
    /\ LET state == GetState(TRUE, 0, ScanState(usb, seed))
       IN  /\ scan_state' = state
           /\ IF DevicesStale(state, list_state)
              THEN /\ \E m \in DevicesRebuild(usb, {}) :
                        /\ device_mapping' = m
                        /\ devices' = {<<p[1], UsbSummary(p[2])>> : p \in m}
                   /\ list_state' = state
                   /\ rebuilt' = TRUE
              ELSE /\ UNCHANGED <<list_state, devices, device_mapping>>
                   /\ rebuilt' = FALSE
    /\ op' = "list_children"
    /\ probed' = TRUE
    /\ listed' = TRUE
    /\ chg_enter' = FALSE
    /\ chg_list' = FALSE
    /\ prev_set' = usb
    /\ prev_clean' = TRUE
    /\ UNCHANGED <<usb, seed, caching, dn_pc, nfcVars, subtree, nonEnumVars>>

\* the points at which creating the child `name` does I/O that can fail
CreateFaults(tree, name, info) ==
    IF tree = "usb"
    THEN IF info = "none" THEN {"open", "read"} ELSE {"open"}
    ELSE IF name = "ccid" THEN {"open", "read"}
         ELSE {"open", "read", "open2"}

\* the device node under its parent enumerator, which has listed the
\* attached device and resolved the node
DeviceInit ==
    /\ subtree \in {"usb", "nfc"}
    /\ op = "init"
    /\ ResInit
    /\ LowerIdle
    /\ caching = FALSE
    /\ dn_pc = "idle"
    /\ seed = 0
    /\ rebuilt = TRUE
    /\ probed = (subtree = "usb")
    /\ listed = TRUE
    /\ chg_enter = FALSE
    /\ chg_list = FALSE
    /\ prev_clean = TRUE
    /\ dv_child = "none"
    /\ dv_child_name = "none"
    /\ dv_open = [t \in ConnTypes |-> 0]
    /\ dv_acq = [name |-> "none", count |-> 1, log |-> <<>>]
    \* one USB device with a serial number and one without, or a reader
    /\ dv_dev \in IF subtree = "usb" THEN {1, 2} ELSE {1}
    /\ prev_set = {dv_dev}
    /\ IF subtree = "usb"
       THEN /\ usb = {dv_dev}
            /\ scan_state = ScanState(usb, seed)
            /\ list_state = ScanState(usb, seed)
            /\ device_mapping \in DevicesRebuild(usb, {})
            /\ devices = {<<p[1], UsbSummary(p[2])>> : p \in device_mapping}
            /\ dv_id \in Keys(device_mapping)
            /\ \A i \in DevIdChoices(dv_dev, {}) : dv_id <= i
            /\ dv_interfaces \in (SUBSET ConnTypes) \ {{}}
            /\ dv_supports \in {{t} : t \in dv_interfaces}
            /\ dv_info = InfoOf(dv_dev)
            /\ nfc = {}
            /\ rd_state = {}
            /\ readers = {}
            /\ reader_mapping = {}
       ELSE /\ nfc = {dv_dev}
            /\ rd_state = {dv_dev}
            /\ reader_mapping \in ReadersRebuild(nfc, {})
            /\ readers = {<<p[1], ReaderSummary(p[2])>> : p \in reader_mapping}
            /\ dv_id \in Keys(reader_mapping)
            /\ dv_id = 1
            /\ dv_interfaces = {}
            /\ dv_supports = {"ccid", "fido"}
            /\ dv_info = "none"
            /\ usb = {}
            /\ scan_state = 0
            /\ list_state = 0
            /\ device_mapping = {}
            /\ devices = {}

\* the get action: get_data, then the listing of the actions and children
\* (DeviceChildren)
DeviceGet(at, exc) ==
    /\ dv_dev # 0
    /\ dn_pc = "idle"
    /\ at \in {"none", "open", "read"}
    /\ at = "none" => Attached /\ exc = "OSError"
    /\ LET raw == GetDataRaw(dv_supports, at, exc)
           res == IF subtree = "nfc" THEN ReaderGetData(raw) ELSE raw
       IN  /\ raised' = (raw \in TransportErrors)
           /\ IF Catches(res)
              THEN /\ dv_child' = "none"
                   /\ dv_child_name' = "none"
                   /\ nosuch' = dv_child_name
                   /\ outcome' = "NoSuchNode"
                   /\ UNCHANGED dv_info
              ELSE /\ outcome' = res
                   /\ nosuch' = "none"
                   /\ dv_info' = IF raw = "ok" THEN InfoOf(dv_dev) ELSE dv_info
                   /\ UNCHANGED <<dv_child, dv_child_name>>
    /\ constructed' = FALSE
    /\ dv_acq' = [name |-> "none", count |-> 1,
                  log |-> GetDataCalls(dv_supports, at)]
    /\ op' = "get"
    /\ UNCHANGED <<subtree, enumVars, lowerVars, dv_dev, dv_id, dv_supports,
                   dv_interfaces, dv_open>>

\* a request routed to the child `name`: get_child(name), then the call the
\* child serves
DeviceNavigate(name, at, exc, n) ==
    /\ dv_dev # 0
    /\ dn_pc = "idle"
    /\ OpenCount(dv_open) < MaxOpen
    /\ at = "none" => exc = "OSError"
    /\ IF ~CreatesChild(dv_child, dv_child_name, name)
       THEN /\ at \in {"none", "call"}
            /\ n = 1
            /\ at = "none" => Attached
       ELSE IF name \notin DeviceChildren(subtree, dv_interfaces)
       THEN at = "none" /\ n = 1
       ELSE IF /\ subtree = "usb"
               /\ UsbPath(name, dv_supports, dv_info) = "unique"
               /\ n # 1
       THEN at = "none"
       ELSE /\ at \in {"none", "call"}
                     \cup CreateFaults(subtree, name, dv_info)
            /\ at = "none" => Attached
            /\ n = 1 \/ (subtree = "usb"
                          /\ UsbPath(name, dv_supports, dv_info) = "unique")
    /\ LET closes == ClosesChild(dv_child, dv_child_name, name)
           creates == CreatesChild(dv_child, dv_child_name, name)
           open1 == IF closes
                    THEN [dv_open EXCEPT ![dv_child] = @ - 1]
                    ELSE dv_open
           offered == name \in DeviceChildren(subtree, dv_interfaces)
           made == IF subtree = "usb"
                   THEN UsbCreate(name, dv_supports, dv_info, at, exc, n)
                   ELSE ReaderCreate(name, at, exc)
           open2 == IF creates /\ offered
                    THEN [t \in ConnTypes |->
                            open1[t] + (IF t \in made.opened THEN 1 ELSE 0)]
                    ELSE open1
           raw == IF creates /\ ~offered THEN "NoSuchNode"
                  ELSE IF creates /\ made.raw # "ok" THEN made.raw
                  ELSE IF at = "call" THEN exc
                  ELSE "ok"
           resolved == ~creates \/ (offered /\ made.raw = "ok")
       IN  /\ dv_open' = open2
           /\ dv_acq' = IF creates /\ offered
                        THEN [name |-> name, count |-> n, log |-> made.log]
                        ELSE [name |-> "none", count |-> 1, log |-> <<>>]
           /\ raised' = (raw \in TransportErrors)
           /\ constructed' = (creates /\ offered /\ made.raw = "ok")
           /\ IF Catches(raw)
              THEN /\ dv_child' = "none"
                   /\ dv_child_name' = "none"
                   /\ nosuch' = IF resolved THEN name ELSE "none"
                   /\ outcome' = "NoSuchNode"
              ELSE /\ dv_child' = IF resolved THEN name ELSE "none"
                   /\ dv_child_name' = IF resolved THEN name ELSE "none"
                   /\ nosuch' = IF raw = "NoSuchNode" THEN name ELSE "none"
                   /\ outcome' = raw
    /\ op' = "navigate"
    /\ UNCHANGED <<subtree, enumVars, lowerVars, dv_dev, dv_id, dv_supports,
                   dv_interfaces, dv_info>>

\* RpcNode.close of the device node: the resolved child is closed, and with
\* it the connection it owns
DeviceClose ==
    /\ dv_dev # 0
    /\ dn_pc = "idle"
    /\ dv_child # "none"
    /\ dv_open' = [dv_open EXCEPT ![dv_child] = @ - 1]
    /\ dv_child' = "none"
    /\ dv_child_name' = "none"
    /\ op' = "close"
    /\ UNCHANGED <<subtree, enumVars, lowerVars, resVars, dv_dev, dv_id,
                   dv_supports, dv_interfaces, dv_info, dv_acq>>

DeviceNext ==
    \/ \E at \in FaultPoints : \E exc \in TransportErrors : DeviceGet(at, exc)
    \/ \E name \in ConnTypes : \E at \in FaultPoints :
          \E exc \in TransportErrors : \E n \in 0..2 :
              DeviceNavigate(name, at, exc, n)
    \/ DeviceClose
    \/ DevicesServeList
    \/ UsbPlug(dv_dev)
    \/ UsbUnplug(dv_dev)
    \/ ReadersListChildren
    \/ ReaderPlug(dv_dev)
    \/ ReaderUnplug(dv_dev)

SpecDevice == DeviceInit /\ [][DeviceNext]_vars

----------------------------------------------------------------------------
(* Claims about the device nodes.                                          *)

\* the step is a request served through the device node
DeviceStep == op' \in {"get", "navigate"}

\* the mapping of the parent enumerator
ParentMapping == device_mapping \cup reader_mapping

\* C3 as stated: whenever a transport error is raised while a device node
\* (USB or reader) serves a call, its own snapshot included, the caller gets
\* NoSuchNode and never the raw error, the child reference and the child
\* name are cleared, and the next navigation constructs a new connection
\* node.
C3_AsStated ==
    [][ /\ DeviceStep => outcome' \notin TransportErrors
        /\ (DeviceStep /\ raised')
              => /\ outcome' = "NoSuchNode"
                 /\ dv_child' = "none"
                 /\ dv_child_name' = "none"
        /\ (raised /\ outcome = "NoSuchNode" /\ op' = "navigate"
            /\ outcome' = "ok") => constructed' ]_vars

\* C3, amended: the same, except that a ReaderDeviceNode answers a transport
\* error in its own snapshot with dict(present=False) and keeps its child.
C3_TransportErrorHandled ==
    [][ /\ DeviceStep => outcome' \notin TransportErrors
        /\ (DeviceStep /\ raised' /\ ~(subtree = "nfc" /\ op' = "get"))
              => /\ outcome' = "NoSuchNode"
                 /\ dv_child' = "none"
                 /\ dv_child_name' = "none"
        /\ (DeviceStep /\ raised' /\ subtree = "nfc" /\ op' = "get")
              => /\ outcome' = "absent"
                 /\ dv_child' = dv_child
                 /\ dv_child_name' = dv_child_name
        /\ (raised /\ outcome = "NoSuchNode" /\ op' = "navigate"
            /\ outcome' = "ok") => constructed' ]_vars

\* a call routed to a resolved child of a USB device node raised a
\* transport error and was answered NoSuchNode
C3_Witness ==
    /\ subtree = "usb"
    /\ op = "navigate"
    /\ raised
    /\ outcome = "NoSuchNode"
    /\ nosuch # "none"
    /\ dv_child = "none"

\* C4 as stated: after a transport failure in a call on a device node, the
\* failed child is absent from the listing of the node's children, and the
\* device node is still listed by its parent enumerator.
C4_AsStated ==
    [][ /\ (DeviceStep /\ raised' /\ outcome' = "NoSuchNode"
            /\ nosuch' # "none")
              => nosuch' \notin DeviceChildren(subtree, dv_interfaces)'
        /\ (raised /\ outcome = "NoSuchNode" /\ op' = "list_children")
              => dv_id \in Keys(ParentMapping') ]_vars

\* C4, amended: after such a failure the node no longer holds the failed
\* child, but the child's name stays in the listing of the node's children
\* (it depends on the declared interfaces alone); the parent enumerator
\* keeps listing the device node for as long as the device set is the one
\* of the listing that showed it.
C4_ChildDroppedStillListed ==
    [][ /\ (DeviceStep /\ raised' /\ outcome' = "NoSuchNode"
            /\ nosuch' # "none")
              => /\ dv_child' = "none"
                 /\ nosuch' \in DeviceChildren(subtree, dv_interfaces)'
        /\ (raised /\ outcome = "NoSuchNode" /\ op' = "list_children"
            /\ ~chg_list /\ dv_id \in Keys(ParentMapping))
              => /\ <<dv_id, dv_dev>> \in ParentMapping'
                 /\ ~rebuilt' ]_vars

\* the parent has listed again after a failed call on a child of the node,
\* and the failed child is still one of the node's children
C4_Witness ==
    /\ op = "list_children"
    /\ raised
    /\ outcome = "NoSuchNode"
    /\ nosuch # "none"
    /\ nosuch \in DeviceChildren(subtree, dv_interfaces)
    /\ dv_child = "none"
    /\ ~rebuilt
    /\ <<dv_id, dv_dev>> \in ParentMapping

----------------------------------------------------------------------------
(* ConnectionNode                                                          *)

Transports == {"usb", "nfc"}

Caps == {"OTP", "OATH", "FIDO2"}

\* firmware versions on both sides of (5, 3, 0), in every component
Versions == {<<4, 4, 5>>, <<5, 2, 9>>, <<5, 3, 0>>, <<6, 1, 0>>}

ConnChildNames == {"management", "oath", "ctap2", "yubiotp"}

\* the connection kinds a device node of the transport opens
ConnKinds(transport) ==
    IF transport = "usb" THEN ConnTypes ELSE {"ccid", "fido"}

\* a comparison of each component on its own
VersionGEComponentwise(v, w) == v[1] >= w[1] /\ v[2] >= w[2] /\ v[3] >= w[3]

\* v >= w on Version tuples
VersionGE(v, w) ==
    \/ v[1] > w[1]
    \/ v[1] = w[1] /\ v[2] > w[2]
    \/ v[1] = w[1] /\ v[2] = w[2] /\ v[3] >= w[3]

\* read_info(None, connection): what the device reports now
ReadInfo == [version |-> hw_version, caps |-> hw_caps]

\* ConnectionNode.capabilities
Capabilities(info) == info.caps

\* the conditions of the @child decorators
ChildCondition(name, transport, connection, info) ==
    CASE name = "management" -> transport = "usb" \/ connection = "ccid"
      [] name = "oath"       -> connection = "ccid"
                                /\ "OATH" \in Capabilities(info)
      [] name = "ctap2"      -> connection = "fido"
                                /\ "FIDO2" \in Capabilities(info)
      [] name = "yubiotp"    ->
            /\ "OTP" \in Capabilities(info)
            /\ \/ connection = "otp"
               \/ /\ connection = "ccid"
                  /\ \/ transport = "nfc"
                     \/ VersionGE(info.version, <<5, 3, 0>>)
      [] OTHER -> FALSE

\* list_children of the connection node
ConnChildren(transport, connection, info) ==
    {n \in ConnChildNames : ChildCondition(n, transport, connection, info)}

\* a snapshot that re-reads over a smartcard connection only
RereadsSmartcardOnly(transport, connection) == connection = "ccid"

\* get_data re-reads the info over a smartcard connection or over USB
Rereads(transport, connection) == connection = "ccid" \/ transport = "usb"

\* ConnectionNode.__init__ below a device node: a USB device node hands
\* down the info of its parent's listing (with capabilities lcaps), a reader device node the
\* info it has just read
ConnOpen(transport, connection, lcaps) ==
    /\ cn_alive' = TRUE
    /\ cn_open' = TRUE
    /\ cn_transport' = transport
    /\ cn_connection' = connection
    /\ cn_info' = IF transport = "usb"
                  THEN [version |-> hw_version, caps |-> lcaps]
                  ELSE ReadInfo
    /\ cn_open_info' = cn_info'
    /\ cn_child' = "none"
    /\ cn_child_name' = "none"
    /\ cn_changed' = FALSE

\* the device node's handler of a transport error: the connection node is
\* dropped, the call is answered NoSuchNode
ConnDropped ==
    /\ cn_alive' = FALSE
    /\ UNCHANGED cn_open
    /\ cn_child' = "none"
    /\ cn_child_name' = "none"
    /\ raised' = TRUE
    /\ outcome' = "NoSuchNode"
    /\ nosuch' = cn_connection
    /\ constructed' = FALSE

ConnInit ==
    /\ subtree = "conn"
    /\ op = "init"
    /\ usb = {}
    /\ seed = 0
    /\ caching = FALSE
    /\ scan_state = 0
    /\ list_state = 0
    /\ devices = {}
    /\ device_mapping = {}
    /\ dn_pc = "idle"
    /\ nfc = {}
    /\ rd_state = {}
    /\ readers = {}
    /\ reader_mapping = {}
    /\ HistInit
    /\ ResInit
    /\ DeviceIdle
    /\ FidoIdle
    /\ BioIdle
    /\ PinIdle
    /\ OtpIdle
    /\ hw_version \in Versions
    /\ hw_caps \in SUBSET Caps
    /\ cn_alive = TRUE
    /\ cn_open = TRUE
    /\ cn_transport \in Transports
    /\ cn_connection \in ConnKinds(cn_transport)
    /\ cn_info \in IF cn_transport = "usb"
                   THEN {[version |-> hw_version, caps |-> c] :
                            c \in SUBSET Caps}
                   ELSE {ReadInfo}
    /\ cn_open_info = cn_info
    /\ cn_child = "none"
    /\ cn_child_name = "none"
    /\ cn_nav = "none"
    /\ cn_changed = FALSE

\* the device is reconfigured from outside the tree: the capabilities
\* enabled on the transport become c
ConnReconfigure(c) ==
    /\ subtree = "conn"
    /\ c # hw_caps
    /\ hw_caps' = c
    /\ cn_changed' = cn_alive
    /\ op' = "reconfigure"
    /\ UNCHANGED <<subtree, enumVars, resVars, devVars, notConnVars, hw_version, cn_alive, cn_open,
                   cn_transport, cn_connection, cn_info, cn_open_info,
                   cn_child, cn_child_name, cn_nav>>

\* the get action of the connection node (it does not close the child);
\* fails: read_info raises a transport error
ConnGet(fails) ==
    /\ subtree = "conn"
    /\ cn_alive
    /\ fails => Rereads(cn_transport, cn_connection)
    /\ IF fails
       THEN /\ ConnDropped
            /\ UNCHANGED cn_info
       ELSE /\ cn_info' = IF Rereads(cn_transport, cn_connection)
                          THEN ReadInfo ELSE cn_info
            /\ outcome' = "data"
            /\ raised' = FALSE
            /\ nosuch' = "none"
            /\ constructed' = FALSE
            /\ UNCHANGED <<cn_alive, cn_open, cn_child, cn_child_name>>
    /\ op' = "conn_get"
    /\ UNCHANGED <<subtree, enumVars, devVars, notConnVars, hw_version, hw_caps,
                   cn_transport, cn_connection, cn_open_info, cn_nav,
                   cn_changed>>

\* a request routed to the child `name` of the connection node:
\* get_child(name); fails: the child's constructor raises a transport error
ConnNavigate(name, fails) ==
    /\ subtree = "conn"
    /\ cn_alive
    /\ LET creates == CreatesChild(cn_child, cn_child_name, name)
           allowed == ChildCondition(name, cn_transport, cn_connection,
                                     cn_info)
       IN  /\ fails => creates /\ allowed
           /\ IF ~creates
              THEN /\ outcome' = "node"
                   /\ raised' = FALSE
                   /\ nosuch' = "none"
                   /\ constructed' = FALSE
                   /\ UNCHANGED <<cn_alive, cn_open, cn_child, cn_child_name>>
              ELSE IF ~allowed
              THEN /\ outcome' = "NoSuchNode"
                   /\ raised' = FALSE
                   /\ nosuch' = name
                   /\ constructed' = FALSE
                   /\ cn_child' = "none"
                   /\ cn_child_name' = "none"
                   /\ UNCHANGED <<cn_alive, cn_open>>
              ELSE IF fails
              THEN ConnDropped
              ELSE /\ outcome' = "node"
                   /\ raised' = FALSE
                   /\ nosuch' = "none"
                   /\ constructed' = TRUE
                   /\ cn_child' = name
                   /\ cn_child_name' = name
                   /\ UNCHANGED <<cn_alive, cn_open>>
    /\ cn_nav' = name
    /\ op' = "conn_navigate"
    /\ UNCHANGED <<subtree, enumVars, devVars, notConnVars, hw_version, hw_caps,
                   cn_transport, cn_connection, cn_info, cn_open_info,
                   cn_changed>>

\* ConnectionNode.close: super().close() closes the child, and
\* self._connection.close() runs only if that returned
ConnectionClosed(child_failed) == ~child_failed

\* ConnectionNode.close; fails: closing the child raises
ConnClose(fails) ==
    /\ subtree = "conn"
    /\ cn_alive
    /\ fails => cn_child # "none"
    /\ cn_open' = (cn_open /\ ~ConnectionClosed(fails))
    /\ IF fails
       THEN /\ outcome' = "error"
            /\ UNCHANGED <<cn_alive, cn_child, cn_child_name>>
       ELSE /\ outcome' = "closed"
            /\ cn_alive' = FALSE
            /\ cn_child' = "none"
            /\ cn_child_name' = "none"
    /\ raised' = FALSE
    /\ nosuch' = "none"
    /\ constructed' = FALSE
    /\ op' = "conn_close"
    /\ UNCHANGED <<subtree, enumVars, devVars, notConnVars, hw_version,
                   hw_caps, cn_transport, cn_connection, cn_info,
                   cn_open_info, cn_nav, cn_changed>>

\* the device node constructs a connection node anew
ConnReopen(connection, lcaps) ==
    /\ subtree = "conn"
    /\ ~cn_alive
    /\ connection \in ConnKinds(cn_transport)
    /\ cn_transport = "nfc" => lcaps = hw_caps
    /\ ConnOpen(cn_transport, connection, lcaps)
    /\ outcome' = "node"
    /\ raised' = FALSE
    /\ nosuch' = "none"
    /\ constructed' = TRUE
    /\ cn_nav' = "none"
    /\ op' = "conn_open"
    /\ UNCHANGED <<subtree, enumVars, devVars, notConnVars, hw_version, hw_caps>>

ConnNext ==
    \/ \E c \in SUBSET Caps : ConnReconfigure(c)
    \/ \E fails \in BOOLEAN : ConnGet(fails)
    \/ \E name \in ConnChildNames : \E fails \in BOOLEAN :
          ConnNavigate(name, fails)
    \/ \E fails \in BOOLEAN : ConnClose(fails)
    \/ \E connection \in ConnTypes : \E lcaps \in SUBSET Caps :
          ConnReopen(connection, lcaps)

SpecConn == ConnInit /\ [][ConnNext]_vars

----------------------------------------------------------------------------
(* Claims about the connection node.                                       *)

\* the gating rules as the claim words them, on the node's transport,
\* connection kind, enabled capabilities and firmware version
GatingRule(name) ==
    LET v == cn_info.version
        atLeast530 == v[1] > 5 \/ (v[1] = 5 /\ v[2] >= 3)
    IN  \/ /\ name = "management"
           /\ cn_transport = "usb" \/ cn_connection = "ccid"
        \/ /\ name = "oath"
           /\ cn_connection = "ccid" /\ "OATH" \in cn_info.caps
        \/ /\ name = "ctap2"
           /\ cn_connection = "fido" /\ "FIDO2" \in cn_info.caps
        \/ /\ name = "yubiotp"
           /\ "OTP" \in cn_info.caps
           /\ \/ cn_connection = "otp"
              \/ /\ cn_connection = "ccid"
                 /\ cn_transport = "nfc" \/ atLeast530

C6_CapabilityRefresh ==
    [][ (op' = "conn_get" /\ outcome' = "data")
        => IF cn_connection = "ccid" \/ cn_transport = "usb"
           THEN ConnChildren(cn_transport, cn_connection, cn_info)'
                   = ConnChildren(cn_transport, cn_connection, ReadInfo)
           ELSE ConnChildren(cn_transport, cn_connection, cn_info)'
                   = ConnChildren(cn_transport, cn_connection, cn_open_info)
      ]_vars

\* after a reconfiguration, a snapshot over a USB connection that is not a
\* smartcard connection has changed the visible children
C6_Witness ==
    /\ op = "conn_get"
    /\ outcome = "data"
    /\ cn_changed
    /\ cn_open_info.caps # hw_caps
    /\ cn_transport = "usb"
    /\ cn_connection # "ccid"
    /\ cn_info = ReadInfo
    /\ ConnChildren(cn_transport, cn_connection, cn_info)
          # ConnChildren(cn_transport, cn_connection, cn_open_info)

\* after a reconfiguration, a snapshot of a FIDO connection over NFC shows
\* the children of the open-time info, not those of the device's bitmask
C6_FixedWitness ==
    /\ op = "conn_get"
    /\ outcome = "data"
    /\ cn_changed
    /\ cn_transport = "nfc"
    /\ cn_connection = "fido"
    /\ ConnChildren(cn_transport, cn_connection, cn_info)
          # ConnChildren(cn_transport, cn_connection, ReadInfo)

----------------------------------------------------------------------------
(* FidoNode: the credentials and the fingerprints sub-trees                *)

\* number of credential ids and of template ids
NumCreds == 2
NumTemplates == 2

\* two relying parties
RpIds == {1, 2}

CredIds == 1..NumCreds

TemplateIds == 1..NumTemplates

\* template names; "none" is None
Names == {"none", "x", "y"}

\* credman.enumerate_rps()
EnumerateRps(held) == {p[1] : p \in held}

\* credman.enumerate_creds(rp_id_hash)
EnumerateCreds(held, rp) == {p[2] : p \in {q \in held : q[1] = rp}}

\* CredentialsRpsNode.refresh: no enumeration when the metadata count is 0
RpsRefresh(held) ==
    IF Cardinality(held) = 0 THEN {} ELSE EnumerateRps(held)

\* a refresh of the credentials that leaves the relying parties as cached
RpKeepsRps(cached, held) == cached

\* CredentialsRpNode.refresh: self.refresh_rps()
RpRefreshRps(cached, held) == RpsRefresh(held)

\* FingerprintsNode.refresh: bio.enumerate_enrollments()
FingerprintsRefresh(cached, held) == held

\* RpcNode._child of a node whose children are numbered
Held(c) == IF c = 0 THEN "none" ELSE "node"

FidoInit ==
    /\ subtree = "fido"
    /\ op = "init"
    /\ usb = {}
    /\ seed = 0
    /\ caching = FALSE
    /\ scan_state = 0
    /\ list_state = 0
    /\ devices = {}
    /\ device_mapping = {}
    /\ dn_pc = "idle"
    /\ nfc = {}
    /\ rd_state = {}
    /\ readers = {}
    /\ reader_mapping = {}
    /\ HistInit
    /\ ResInit
    /\ DeviceIdle
    /\ ConnIdle
    /\ BioIdle
    /\ PinIdle
    /\ OtpIdle
    \* every credential id belongs to one relying party
    /\ hw_creds \in {h \in SUBSET (RpIds \X CredIds) :
                       \A a \in h : \A b \in h : a[2] = b[2] => a = b}
    /\ hw_templates \in {h \in SUBSET (TemplateIds \X Names) : IsDict(h)}
    /\ fd_child = "none"
    /\ rps = {}
    /\ rps_child = 0
    /\ creds = {}
    /\ rp_child = 0
    /\ templates = {}
    /\ fps_child = 0
    /\ fp_name = "none"
    /\ fd_target = 0
    /\ fd_external = FALSE

\* a request answered by a node or by a result, with no error
FidoAnswered(what, made) ==
    /\ outcome' = what
    /\ raised' = FALSE
    /\ nosuch' = "none"
    /\ constructed' = made

\* FidoNode.credentials via get_child: the fingerprints child is closed, a
\* CredentialsRpsNode is constructed when none is resolved
FidoCredentials ==
    /\ subtree = "fido"
    /\ IF CreatesChild(fd_child, fd_child, "credentials")
       THEN /\ fd_child' = "credentials"
            /\ rps' = RpsRefresh(hw_creds)
            /\ rps_child' = 0
            /\ creds' = {}
            /\ rp_child' = 0
            /\ templates' = {}
            /\ fps_child' = 0
            /\ fp_name' = "none"
            /\ fd_external' = FALSE
            /\ FidoAnswered("node", TRUE)
       ELSE /\ UNCHANGED <<fd_child, rps, rps_child, creds, rp_child,
                           templates, fps_child, fp_name, fd_external>>
            /\ FidoAnswered("node", FALSE)
    /\ op' = "credentials"
    /\ UNCHANGED <<notFidoVars, hw_creds, hw_templates, fd_target>>

\* CredentialsRpsNode.create_child via get_child
RpsNavigate(rp) ==
    /\ subtree = "fido"
    /\ fd_child = "credentials"
    /\ IF ~CreatesChild(Held(rps_child), rps_child, rp)
       THEN /\ UNCHANGED <<rps, rps_child, creds, rp_child, fd_external>>
            /\ FidoAnswered("node", FALSE)
       ELSE IF rp \in rps
       THEN /\ rps_child' = rp
            /\ rps' = RpRefreshRps(rps, hw_creds)
            /\ creds' = EnumerateCreds(hw_creds, rp)
            /\ rp_child' = 0
            /\ fd_external' = FALSE
            /\ FidoAnswered("node", TRUE)
       ELSE /\ rps_child' = 0
            /\ creds' = {}
            /\ rp_child' = 0
            /\ outcome' = "NoSuchNode"
            /\ raised' = FALSE
            /\ nosuch' = "rp"
            /\ constructed' = FALSE
            /\ UNCHANGED <<rps, fd_external>>
    /\ op' = "rp"
    /\ UNCHANGED <<notFidoVars, hw_creds, hw_templates, fd_child, templates,
                   fps_child, fp_name, fd_target>>

\* CredentialsRpNode.create_child via get_child
RpNavigate(c) ==
    /\ subtree = "fido"
    /\ fd_child = "credentials"
    /\ rps_child # 0
    /\ IF ~CreatesChild(Held(rp_child), rp_child, c)
       THEN /\ UNCHANGED rp_child
            /\ FidoAnswered("node", FALSE)
       ELSE IF c \in creds
       THEN /\ rp_child' = c
            /\ FidoAnswered("node", TRUE)
       ELSE /\ rp_child' = 0
            /\ outcome' = "NoSuchNode"
            /\ raised' = FALSE
            /\ nosuch' = "credential"
            /\ constructed' = FALSE
    /\ op' = "credential"
    /\ UNCHANGED <<notFidoVars, hw_creds, hw_templates, fd_child, rps,
                   rps_child, creds, templates, fps_child, fp_name,
                   fd_target, fd_external>>

\* CredentialNode.delete: delete_cred, then the refresh of the parent
\* CredentialsRpNode; the device refuses a credential it does not hold
CredentialDelete ==
    /\ subtree = "fido"
    /\ fd_child = "credentials"
    /\ rp_child # 0
    /\ IF rp_child \in {p[2] : p \in hw_creds}
       THEN /\ hw_creds' = {p \in hw_creds : p[2] # rp_child}
            /\ rps' = RpRefreshRps(rps, hw_creds')
            /\ creds' = EnumerateCreds(hw_creds', rps_child)
            /\ fd_external' = FALSE
            /\ FidoAnswered("done", FALSE)
       ELSE /\ UNCHANGED <<hw_creds, rps, creds, fd_external>>
            /\ FidoAnswered("error", FALSE)
    /\ fd_target' = rp_child
    /\ op' = "cred_delete"
    /\ UNCHANGED <<notFidoVars, hw_templates, fd_child, rps_child, rp_child,
                   templates, fps_child, fp_name>>

\* a credential is made on the device from outside the tree
ExternalMakeCredential(rp, c) ==
    /\ subtree = "fido"
    /\ c \notin {p[2] : p \in hw_creds}
    /\ hw_creds' = hw_creds \cup {<<rp, c>>}
    /\ fd_external' = TRUE
    /\ op' = "make_credential"
    /\ UNCHANGED <<notFidoVars, resVars, hw_templates, fd_child, rps,
                   rps_child, creds, rp_child, templates, fps_child, fp_name,
                   fd_target>>

\* FidoNode.fingerprints via get_child: the credentials child is closed, a
\* FingerprintsNode is constructed when none is resolved
FidoFingerprints ==
    /\ subtree = "fido"
    /\ IF CreatesChild(fd_child, fd_child, "fingerprints")
       THEN /\ fd_child' = "fingerprints"
            /\ templates' = FingerprintsRefresh({}, hw_templates)
            /\ fps_child' = 0
            /\ fp_name' = "none"
            /\ rps' = {}
            /\ rps_child' = 0
            /\ creds' = {}
            /\ rp_child' = 0
            /\ fd_external' = FALSE
            /\ FidoAnswered("node", TRUE)
       ELSE /\ UNCHANGED <<fd_child, rps, rps_child, creds, rp_child,
                           templates, fps_child, fp_name, fd_external>>
            /\ FidoAnswered("node", FALSE)
    /\ op' = "fingerprints"
    /\ UNCHANGED <<notFidoVars, hw_creds, hw_templates, fd_target>>

\* FingerprintsNode.create_child via get_child
FingerprintsNavigate(t) ==
    /\ subtree = "fido"
    /\ fd_child = "fingerprints"
    /\ IF ~CreatesChild(Held(fps_child), fps_child, t)
       THEN /\ UNCHANGED <<fps_child, fp_name>>
            /\ FidoAnswered("node", FALSE)
       ELSE IF t \in Keys(templates)
       THEN /\ fps_child' = t
            /\ fp_name' = Lookup(templates, t)
            /\ FidoAnswered("node", TRUE)
       ELSE /\ fps_child' = 0
            /\ fp_name' = "none"
            /\ outcome' = "NoSuchNode"
            /\ raised' = FALSE
            /\ nosuch' = "template"
            /\ constructed' = FALSE
    /\ op' = "template"
    /\ UNCHANGED <<notFidoVars, hw_creds, hw_templates, fd_child, rps,
                   rps_child, creds, rp_child, templates, fd_target,
                   fd_external>>

\* FingerprintNode.rename: set_name, then the refresh of the parent; the
\* device refuses a template it does not hold
FingerprintRename(name) ==
    /\ subtree = "fido"
    /\ fd_child = "fingerprints"
    /\ fps_child # 0
    /\ name # "none"
    /\ IF fps_child \in Keys(hw_templates)
       THEN /\ hw_templates' = Put(hw_templates, fps_child, name)
            /\ fp_name' = name
            /\ templates' = FingerprintsRefresh(templates, hw_templates')
            /\ FidoAnswered("done", FALSE)
       ELSE /\ UNCHANGED <<hw_templates, fp_name, templates>>
            /\ FidoAnswered("error", FALSE)
    /\ fd_target' = fps_child
    /\ op' = "fp_rename"
    /\ UNCHANGED <<notFidoVars, hw_creds, fd_child, rps, rps_child, creds,
                   rp_child, fps_child, fd_external>>

\* FingerprintNode.delete: remove_enrollment, then the refresh of the parent
FingerprintDelete ==
    /\ subtree = "fido"
    /\ fd_child = "fingerprints"
    /\ fps_child # 0
    /\ IF fps_child \in Keys(hw_templates)
       THEN /\ hw_templates' = {p \in hw_templates : p[1] # fps_child}
            /\ templates' = FingerprintsRefresh(templates, hw_templates')
            /\ FidoAnswered("done", FALSE)
       ELSE /\ UNCHANGED <<hw_templates, templates>>
            /\ FidoAnswered("error", FALSE)
    /\ fd_target' = fps_child
    /\ op' = "fp_delete"
    /\ UNCHANGED <<notFidoVars, hw_creds, fd_child, rps, rps_child, creds,
                   rp_child, fps_child, fp_name, fd_external>>

FidoNext ==
    \/ FidoCredentials
    \/ \E rp \in RpIds : RpsNavigate(rp)
    \/ \E c \in CredIds : RpNavigate(c)
    \/ CredentialDelete
    \/ \E rp \in RpIds : \E c \in CredIds : ExternalMakeCredential(rp, c)
    \/ FidoFingerprints
    \/ \E t \in TemplateIds : FingerprintsNavigate(t)
    \/ \E name \in Names : FingerprintRename(name)
    \/ FingerprintDelete

SpecFido == FidoInit /\ [][FidoNext]_vars

----------------------------------------------------------------------------
(* Claims about the FIDO2 sub-tree.                                        *)

\* the listings of the nodes held equal what the device holds
ListingsCurrent ==
    /\ fd_child = "credentials"
          => /\ rps = {p[1] : p \in hw_creds}
             /\ rps_child # 0
                   => creds = {p[2] : p \in {q \in hw_creds :
                                                q[1] = rps_child}}
    /\ fd_child = "fingerprints" => templates = hw_templates

\* C7: when CredentialNode.delete, FingerprintNode.rename or
\* FingerprintNode.delete returns, the relying-party listing, the credential
\* listing and the fingerprint listing of the sub-tree equal what the device
\* holds, whatever they were before, and the deleted credential or template
\* is in none of them; with no change made to the device from outside the
\* tree, the listings equal what the device holds in every state.
C7_MutationsReenumerate ==
    [][ /\ (op' \in {"cred_delete", "fp_rename", "fp_delete"}
            /\ outcome' = "done")
              => /\ ListingsCurrent'
                 /\ op' = "cred_delete" => fd_target' \notin creds'
                 /\ op' = "fp_delete" => fd_target' \notin Keys(templates')
                 /\ op' = "fp_rename"
                       => <<fd_target', fp_name'>> \in templates'
        /\ ~fd_external' => ListingsCurrent'
      ]_vars

\* the last credential of a relying party has been deleted, and the
\* relying party has left the listing of the sub-tree that was there before
C7_Witness ==
    /\ op = "cred_delete"
    /\ outcome = "done"
    /\ fd_child = "credentials"
    /\ rps_child # 0
    /\ rp_child = fd_target
    /\ rps_child \notin rps
    /\ creds = {}
    /\ hw_creds # {}

----------------------------------------------------------------------------
(* FingerprintsNode.add                                                    *)

\* capture attempts one add action makes at most
MaxAttempts == 3
\* samples an enrollment asks for at most after the first
MaxRemaining == 2

\* CaptureError codes
Codes == {"FP_POOR_QUALITY", "NO_USER_ACTIVITY"}

\* how a capture attempt resolves: CaptureError, a good sample with more
\* to come (None), the template id, the cancellation, another failure
CaptureResults == {"error", "partial", "done", "cancel", "failure"}

\* log entries: <<"capture", remaining>> and <<"capture-error", code>> are
\* signals, <<"attempt", result, remaining, code>> is a capture attempt
Signal(kind, payload) == <<kind, payload>>

Attempt(result, r, code) == <<"attempt", result, r, code>>

Attempts(log) == {i \in 1..Len(log) : log[i][1] = "attempt"}

Signals(log, kind) == {i \in 1..Len(log) : log[i][1] = kind}

\* an except clause that catches the cancellation as well
CaughtWithCancel(result) == result \in {"error", "cancel"}

\* except CaptureError
Caught(result) == result = "error"

\* a handler that emits nothing
OnCaptureErrorSilent(log, code) == log

\* signal("capture-error", code=e.code)
OnCaptureError(log, code) == Append(log, Signal("capture-error", code))

BioInit ==
    /\ subtree = "bio"
    /\ op = "init"
    /\ usb = {}
    /\ seed = 0
    /\ caching = FALSE
    /\ scan_state = 0
    /\ list_state = 0
    /\ devices = {}
    /\ device_mapping = {}
    /\ dn_pc = "idle"
    /\ nfc = {}
    /\ rd_state = {}
    /\ readers = {}
    /\ reader_mapping = {}
    /\ HistInit
    /\ ResInit
    /\ DeviceIdle
    /\ ConnIdle
    /\ BioIdle
    /\ PinIdle
    /\ OtpIdle
    /\ hw_creds = {}
    \* the templates enrolled before, all of one name
    /\ hw_templates \in SUBSET (TemplateIds \X {"x"})
    /\ fd_child = "fingerprints"
    /\ rps = {}
    /\ rps_child = 0
    /\ creds = {}
    /\ rp_child = 0
    /\ templates = FingerprintsRefresh({}, hw_templates)
    /\ fps_child = 0
    /\ fp_name = "none"
    /\ fd_target = 0
    /\ fd_external = FALSE

\* add is invoked: name = params.get("name"), enroller = self.bio.enroll()
BioAdd(name) ==
    /\ subtree = "bio"
    /\ fd_child = "fingerprints"
    /\ bio_pc = "idle"
    /\ bio_pc' = "signal"
    /\ bio_name' = name
    /\ bio_template' = 0
    /\ en_template' = 0
    /\ en_remaining' = -1
    /\ bio_event' = FALSE
    /\ bio_raced' = FALSE
    /\ bio_code' = "none"
    /\ bio_log' = <<>>
    /\ bio_result' = 0
    /\ bio_named' = FALSE
    /\ bio_before' = templates
    /\ outcome' = "running"
    /\ op' = "add"
    /\ UNCHANGED <<notBioVars, hw_templates, templates>>

\* signal("capture", remaining=enroller.remaining)
BioSignalCapture ==
    /\ subtree = "bio"
    /\ bio_pc = "signal"
    /\ bio_log' = Append(bio_log, Signal("capture", en_remaining))
    /\ bio_pc' = "capture"
    /\ op' = "signal"
    /\ UNCHANGED <<notBioVars, hw_templates, templates, outcome, bio_name,
                   bio_template, en_template, en_remaining, bio_event,
                   bio_raced, bio_code, bio_result, bio_named, bio_before>>

\* the call ends with an exception
BioRaises(what) ==
    /\ bio_pc' = "idle"
    /\ outcome' = what

\* template_id = enroller.capture(event) resolves: the device allocates the
\* template id t in the first attempt it answers, and reports r samples
\* remaining; a CaptureError carries code
BioCapture(result, t, r, code) ==
    /\ subtree = "bio"
    /\ bio_pc = "capture"
    /\ IF result \in {"cancel", "failure"}
       THEN t = 1
       ELSE IF en_template = 0
       THEN t \notin Keys(hw_templates)
       ELSE t = en_template
    /\ result \in {"error", "partial"}
          => /\ Cardinality(Attempts(bio_log)) + 1 < MaxAttempts
             /\ r >= 1
    /\ result = "done" => r = 0
    /\ result \in {"cancel", "failure"} => r = 0
    /\ (result = "error") = (code # "none")
    /\ result = "cancel" => bio_event
    /\ bio_log' = Append(bio_log, Attempt(result, r, code))
    /\ bio_raced' = FALSE
    /\ IF result \in {"error", "partial", "done"}
       THEN /\ en_template' = t
            /\ en_remaining' = r
       ELSE UNCHANGED <<en_template, en_remaining>>
    /\ IF Caught(result)
       THEN /\ bio_code' = code
            /\ bio_pc' = "error_signal"
            /\ UNCHANGED <<bio_template, hw_templates, outcome>>
       ELSE IF result = "partial"
       THEN /\ bio_pc' = "signal"
            /\ UNCHANGED <<bio_template, hw_templates, outcome, bio_code>>
       ELSE IF result = "done"
       THEN /\ bio_template' = t
            /\ hw_templates' = Put(hw_templates, t, "none")
            /\ bio_pc' = "name"
            /\ UNCHANGED <<outcome, bio_code>>
       ELSE /\ BioRaises(IF result = "cancel" THEN "cancelled" ELSE "error")
            /\ UNCHANGED <<bio_template, hw_templates, bio_code>>
    /\ op' = "capture"
    /\ UNCHANGED <<notBioVars, templates, bio_name, bio_event, bio_result,
                   bio_named, bio_before>>

\* except CaptureError as e: signal("capture-error", code=e.code)
BioSignalError ==
    /\ subtree = "bio"
    /\ bio_pc = "error_signal"
    /\ bio_log' = OnCaptureError(bio_log, bio_code)
    /\ bio_pc' = "signal"
    /\ op' = "signal_error"
    /\ UNCHANGED <<notBioVars, hw_templates, templates, outcome, bio_name,
                   bio_template, en_template, en_remaining, bio_event,
                   bio_raced, bio_code, bio_result, bio_named, bio_before>>

\* after the loop: set_name if a name was given (ok: the device accepts
\* it), the entry in self._templates, the result
BioFinish(ok) ==
    /\ subtree = "bio"
    /\ bio_pc = "name"
    /\ ~ok => bio_name # "none"
    /\ IF bio_name # "none"
       THEN /\ bio_named' = ok
            /\ hw_templates' = IF ok
                               THEN Put(hw_templates, bio_template, bio_name)
                               ELSE hw_templates
       ELSE UNCHANGED <<bio_named, hw_templates>>
    /\ IF ok
       THEN /\ templates' = Put(templates, bio_template, bio_name)
            /\ bio_result' = bio_template
            /\ bio_pc' = "idle"
            /\ outcome' = "result"
       ELSE /\ BioRaises("error")
            /\ UNCHANGED <<templates, bio_result>>
    /\ op' = "finish"
    /\ UNCHANGED <<notBioVars, bio_name, bio_template, en_template,
                   en_remaining, bio_event, bio_raced, bio_code, bio_log,
                   bio_before>>

\* the caller sets the cancellation event, after the first progress signal
BioCancel ==
    /\ subtree = "bio"
    /\ bio_pc # "idle"
    /\ ~bio_event
    /\ Signals(bio_log, "capture") # {}
    /\ bio_event' = TRUE
    /\ bio_raced' = (bio_pc = "capture")
    /\ op' = "cancel"
    /\ UNCHANGED <<notBioVars, hw_templates, templates, outcome, bio_pc,
                   bio_name, bio_template, en_template, en_remaining,
                   bio_code, bio_log, bio_result, bio_named, bio_before>>

BioNext ==
    \/ \E name \in {"none", "x"} : BioAdd(name)
    \/ BioSignalCapture
    \/ \E result \in CaptureResults : \E t \in TemplateIds :
          \E r \in 0..MaxRemaining : \E code \in Codes \cup {"none"} :
              BioCapture(result, t, r, code)
    \/ BioSignalError
    \/ \E ok \in BOOLEAN : BioFinish(ok)
    \/ BioCancel

SpecBio == BioInit /\ [][BioNext]_vars

----------------------------------------------------------------------------
(* Claims about FingerprintsNode.add.                                      *)

\* the capture attempts of the log are errors up to the last, which gave
\* the template id
ErrorsThenSuccess(log) ==
    /\ Attempts(log) # {}
    /\ \A i \in Attempts(log) :
          IF \E j \in Attempts(log) : j > i
          THEN log[i][2] = "error"
          ELSE log[i][2] = "done"

\* enroller.remaining before entry i of the log: what the last attempt
\* before it that reached a sample reported, None (-1) if there is none
RemainingBefore(log, i) ==
    LET seen == {j \in Attempts(log) :
                    j < i /\ log[j][2] \in {"error", "partial", "done"}}
    IN  IF seen = {} THEN -1
        ELSE log[CHOOSE j \in seen : \A k \in seen : k <= j][3]

\* C8: when add returns its result after k capture errors followed by a
\* success, it has emitted exactly k capture-error and k+1 capture signals;
\* in every add, each capture attempt comes right after a capture signal
\* carrying the enroller's remaining count, each capture-error signal comes
\* right after the failed attempt whose code it carries, and the result
\* carries the template id the successful capture returned.
C8_EnrollmentSignals ==
    /\ \A i \in Attempts(bio_log) :
          /\ i > 1
          /\ bio_log[i - 1][1] = "capture"
          /\ bio_log[i - 1][2] = RemainingBefore(bio_log, i)
    /\ \A i \in Signals(bio_log, "capture-error") :
          /\ i > 1
          /\ bio_log[i - 1][1] = "attempt"
          /\ bio_log[i - 1][2] = "error"
          /\ bio_log[i - 1][4] = bio_log[i][2]
    /\ (bio_pc = "idle" /\ outcome = "result")
          => /\ bio_result = en_template
             /\ bio_result # 0
             /\ bio_log[Len(bio_log)][1] = "attempt"
             /\ bio_log[Len(bio_log)][2] = "done"
             /\ ErrorsThenSuccess(bio_log)
                   => LET k == Cardinality(Attempts(bio_log)) - 1
                      IN  /\ Cardinality(Signals(bio_log, "capture-error"))
                                = k
                          /\ Cardinality(Signals(bio_log, "capture"))
                                = k + 1

\* add has returned its result after two capture errors and a success
C8_Witness ==
    /\ bio_pc = "idle"
    /\ outcome = "result"
    /\ ErrorsThenSuccess(bio_log)
    /\ Cardinality(Attempts(bio_log)) = 3
    /\ Cardinality(Signals(bio_log, "capture-error")) = 2
    /\ bio_result # 0

----------------------------------------------------------------------------
(* YubiOtpNode, SlotNode                                                   *)

\* SLOT.ONE, SLOT.TWO
Slots == {1, 2}

\* a slot is not configured, configured, or configured and touch-triggered
SlotConfigs == {"empty", "plain", "touch"}

\* state.is_configured(slot)
IsConfigured(state, slot) == state[slot] # "empty"

\* state.is_touch_triggered(slot)
IsTouchTriggered(state, slot) == state[slot] = "touch"

\* list_actions of the SlotNode: the conditions of its @action decorators,
\* on self._state
SlotActions(state, slot) ==
    {a \in {"delete", "calculate"} :
        /\ a = "delete" => IsConfigured(state, slot)
        /\ a = "calculate" => /\ IsConfigured(state, slot)
                              /\ ~IsTouchTriggered(state, slot)}

OtpInit ==
    /\ subtree = "otp"
    /\ op = "init"
    /\ usb = {}
    /\ seed = 0
    /\ caching = FALSE
    /\ scan_state = 0
    /\ list_state = 0
    /\ devices = {}
    /\ device_mapping = {}
    /\ dn_pc = "idle"
    /\ nfc = {}
    /\ rd_state = {}
    /\ readers = {}
    /\ reader_mapping = {}
    /\ HistInit
    /\ ResInit
    /\ DeviceIdle
    /\ ConnIdle
    /\ FidoIdle
    /\ BioIdle
    /\ PinIdle
    /\ hw_slots \in [Slots -> SlotConfigs]
    /\ otp_child = 0
    /\ slot_state = <<"empty", "empty">>
    /\ otp_external = FALSE

\* a request answered with no error
OtpAnswered(what, made) ==
    /\ outcome' = what
    /\ raised' = FALSE
    /\ nosuch' = "none"
    /\ constructed' = made

\* the get action of the YubiOtpNode: get_data reads the configuration; the
\* resolved child stays
OtpGet ==
    /\ subtree = "otp"
    /\ OtpAnswered("data", FALSE)
    /\ op' = "otp_get"
    /\ UNCHANGED <<notOtpVars, otpVars>>

\* YubiOtpNode.swap: an action of the node closes the resolved child, then
\* the device swaps its slots
OtpSwap ==
    /\ subtree = "otp"
    /\ otp_child' = 0
    /\ hw_slots' = <<hw_slots[2], hw_slots[1]>>
    /\ OtpAnswered("done", FALSE)
    /\ op' = "swap"
    /\ UNCHANGED <<notOtpVars, slot_state, otp_external>>

\* YubiOtpNode.one/two via get_child: SlotNode.__init__ reads the state
OtpNavigate(slot) ==
    /\ subtree = "otp"
    /\ IF CreatesChild(Held(otp_child), otp_child, slot)
       THEN /\ otp_child' = slot
            /\ slot_state' = hw_slots
            /\ otp_external' = FALSE
            /\ OtpAnswered("node", TRUE)
       ELSE /\ UNCHANGED <<otp_child, slot_state, otp_external>>
            /\ OtpAnswered("node", FALSE)
    /\ op' = "slot"
    /\ UNCHANGED <<notOtpVars, hw_slots>>

\* the get action of the SlotNode: get_data reads the state anew
SlotGet ==
    /\ subtree = "otp"
    /\ otp_child # 0
    /\ slot_state' = hw_slots
    /\ otp_external' = FALSE
    /\ OtpAnswered("data", FALSE)
    /\ op' = "slot_get"
    /\ UNCHANGED <<notOtpVars, hw_slots, otp_child>>

\* SlotNode.delete, when list_actions has it: the device clears the slot,
\* or refuses to when the slot is not configured
SlotDelete ==
    /\ subtree = "otp"
    /\ otp_child # 0
    /\ IF "delete" \notin SlotActions(slot_state, otp_child)
       THEN /\ OtpAnswered("NoSuchAction", FALSE)
            /\ UNCHANGED hw_slots
       ELSE IF IsConfigured(hw_slots, otp_child)
       THEN /\ hw_slots' = [hw_slots EXCEPT ![otp_child] = "empty"]
            /\ OtpAnswered("done", FALSE)
       ELSE /\ OtpAnswered("error", FALSE)
            /\ UNCHANGED hw_slots
    /\ op' = "slot_delete"
    /\ UNCHANGED <<notOtpVars, otp_child, slot_state, otp_external>>

\* SlotNode.calculate, when list_actions has it: the device answers the
\* challenge of a configured slot
SlotCalculate ==
    /\ subtree = "otp"
    /\ otp_child # 0
    /\ IF "calculate" \notin SlotActions(slot_state, otp_child)
       THEN OtpAnswered("NoSuchAction", FALSE)
       ELSE IF IsConfigured(hw_slots, otp_child)
       THEN OtpAnswered("response", FALSE)
       ELSE OtpAnswered("error", FALSE)
    /\ op' = "slot_calculate"
    /\ UNCHANGED <<notOtpVars, otpVars>>

\* a slot is programmed from outside the tree
ExternalProgram(slot, config) ==
    /\ subtree = "otp"
    /\ config # hw_slots[slot]
    /\ config # "empty"
    /\ hw_slots' = [hw_slots EXCEPT ![slot] = config]
    /\ otp_external' = TRUE
    /\ op' = "program"
    /\ UNCHANGED <<notOtpVars, resVars, otp_child, slot_state>>

OtpNext ==
    \/ OtpGet
    \/ OtpSwap
    \/ \E slot \in Slots : OtpNavigate(slot)
    \/ SlotGet
    \/ SlotDelete
    \/ SlotCalculate
    \/ \E slot \in Slots : \E config \in SlotConfigs :
          ExternalProgram(slot, config)

SpecOtp == OtpInit /\ [][OtpNext]_vars

----------------------------------------------------------------------------
(* Claims about the YubiOTP sub-tree.                                      *)

\* C10: unless the slot was programmed from outside the tree since the
\* SlotNode last read the state, a SlotNode exposes calculate only if its
\* slot is configured and not touch-triggered on the device, and delete
\* only if its slot is configured on the device.
C10_SlotActionsCurrent ==
    (otp_child # 0 /\ ~otp_external)
        => /\ "calculate" \in SlotActions(slot_state, otp_child)
                 => /\ IsConfigured(hw_slots, otp_child)
                    /\ ~IsTouchTriggered(hw_slots, otp_child)
           /\ "delete" \in SlotActions(slot_state, otp_child)
                 => IsConfigured(hw_slots, otp_child)

\* after a swap on the parent, the SlotNode navigated to next exposes the
\* actions of the slot's configuration on the device
C10_AfterSwap ==
    [][ (op = "swap" /\ op' = "slot")
        => SlotActions(slot_state, otp_child)'
              = SlotActions(hw_slots, otp_child)' ]_vars

----------------------------------------------------------------------------
(* The enumerators while the hardware probes fail.                         *)

\* how a failing probe (list_devices, scan_devices, list_all_devices) ends:
\* it raises, or it finds nothing
ProbeFailures == {"raise", "empty"}

\* an exception leaves the enumerator's call
EnumRaises ==
    /\ outcome' = "error"
    /\ raised' = TRUE
    /\ nosuch' = "none"
    /\ constructed' = FALSE

\* the enumerator's call returns the mapping
EnumReturns ==
    /\ outcome' = "mapping"
    /\ raised' = FALSE
    /\ nosuch' = "none"
    /\ constructed' = FALSE

\* ReadersNode.list_children while list_devices("") fails
ReadersListFailing(how) ==
    /\ subtree = "nfc"
    /\ IF how = "raise"
       THEN /\ EnumRaises
            /\ UNCHANGED <<rd_state, readers, reader_mapping, rebuilt, listed,
                           chg_list, prev_set, prev_clean>>
       ELSE /\ EnumReturns
            /\ IF rd_state # {}
               THEN /\ reader_mapping' = {}
                    /\ readers' = {}
                    /\ rd_state' = {}
                    /\ rebuilt' = TRUE
               ELSE /\ UNCHANGED <<rd_state, readers, reader_mapping>>
                    /\ rebuilt' = FALSE
            /\ listed' = TRUE
            /\ chg_list' = TRUE
            /\ prev_set' = {}
            /\ prev_clean' = FALSE
    /\ op' = "list_failing"
    /\ UNCHANGED <<nfc, usbVars, probed, chg_enter, subtree, devVars,
                   lowerVars>>

\* DevicesNode.scan or get_data while scan_devices() fails
DevicesEvalFailing(how) ==
    /\ subtree = "usb"
    /\ dn_pc \in {"scan", "get"}
    /\ Probes(caching, scan_state)
    /\ probed' = TRUE
    /\ IF how = "raise"
       THEN /\ EnumRaises
            /\ caching' = FALSE
            /\ dn_pc' = "idle"
            /\ UNCHANGED scan_state
       ELSE /\ outcome' = "state"
            /\ raised' = FALSE
            /\ nosuch' = "none"
            /\ constructed' = FALSE
            /\ scan_state' = ScanState({}, seed)
            /\ dn_pc' = IF dn_pc = "scan" THEN "exit" ELSE "list"
            /\ UNCHANGED caching
    /\ op' = "eval_failing"
    /\ UNCHANGED <<usb, seed, list_state, devices, device_mapping, nfcVars,
                   rebuilt, listed, chg_enter, chg_list, prev_set, prev_clean,
                   subtree, devVars, lowerVars>>

\* DevicesNode.list_children while the hardware probes fail: scan_devices()
\* if the token is evaluated anew, list_all_devices() if the mapping is
\* rebuilt
DevicesListFailing(how) ==
    /\ subtree = "usb"
    /\ dn_pc = "list"
    /\ LET probes == Probes(caching, scan_state)
           state  == GetState(caching, scan_state, ScanState({}, seed))
           stale  == DevicesStale(state, list_state)
       IN  /\ probes \/ stale
           /\ probed' = probes
           /\ IF how = "raise"
              THEN /\ EnumRaises
                   /\ scan_state' = IF probes THEN scan_state ELSE state
                   /\ caching' = FALSE
                   /\ dn_pc' = "idle"
                   \* list_all_devices() raises after the mappings were
                   \* emptied
                   /\ IF ~probes
                      THEN /\ devices' = {}
                           /\ device_mapping' = {}
                      ELSE UNCHANGED <<devices, device_mapping>>
                   /\ UNCHANGED <<list_state, rebuilt, listed, chg_list,
                                  prev_set, prev_clean>>
              ELSE /\ EnumReturns
                   /\ scan_state' = state
                   /\ dn_pc' = "exit"
                   /\ IF stale
                      THEN /\ devices' = {}
                           /\ device_mapping' = {}
                           /\ list_state' = state
                           /\ rebuilt' = TRUE
                      ELSE /\ UNCHANGED <<list_state, devices,
                                          device_mapping>>
                           /\ rebuilt' = FALSE
                   /\ listed' = TRUE
                   /\ chg_list' = TRUE
                   /\ prev_set' = {}
                   /\ prev_clean' = FALSE
                   /\ UNCHANGED caching
    /\ op' = "list_failing"
    /\ UNCHANGED <<usb, seed, nfcVars, chg_enter, subtree, devVars,
                   lowerVars>>

ProbeNext ==
    \/ \E req \in {"scan", "get", "list"} : DevicesEnter(req)
    \/ DevicesScan
    \/ DevicesGetData
    \/ DevicesListChildren
    \/ DevicesExit
    \/ \E d \in UsbDevs : UsbPlug(d)
    \/ \E d \in UsbDevs : UsbUnplug(d)
    \/ ReadersListChildren
    \/ \E r \in AllReaders : ReaderPlug(r)
    \/ \E r \in AllReaders : ReaderUnplug(r)
    \/ \E how \in ProbeFailures : ReadersListFailing(how)
    \/ \E how \in ProbeFailures : DevicesEvalFailing(how)
    \/ \E how \in ProbeFailures : DevicesListFailing(how)

SpecProbe == EnumInit /\ [][ProbeNext]_vars

\* C11: a list_children call during which the hardware probe fails does not
\* fail, and the mapping it returns is empty.
C11_ProbeFailureGivesEmpty ==
    [][ op' = "list_failing"
        => /\ outcome' = "mapping"
           /\ subtree = "nfc" => readers' = {}
           /\ subtree = "usb" => devices' = {} ]_vars

\* when the failing probe finds nothing instead of raising, a listing that
\* has probed returns without error, and the mapping is empty if it was
\* rebuilt
C11_EmptyProbe ==
    [][ (op' = "list_failing" /\ ~raised')
        => /\ outcome' = "mapping"
           /\ rebuilt' => (readers' = {} /\ devices' = {}) ]_vars

----------------------------------------------------------------------------
(* Claims about the caching scope of the USB scanner.                      *)

\* C12: in a get request, whose scope evaluates the token in get_data and
\* again in list_children, the first evaluation probes the hardware and
\* the second returns the token of the first without probing, whatever
\* the token is.
C12_ScanOncePerScope ==
    [][ /\ (subtree = "usb" /\ op' = "get_data") => probed'
        /\ (subtree = "usb" /\ op = "get_data" /\ op' = "list_children")
              => /\ ~probed'
                 /\ scan_state' = scan_state ]_vars

\* a token other than 0 is reused by the later evaluation of the scope
C12_NonzeroTokenReused ==
    [][ (subtree = "usb" /\ op = "get_data" /\ op' = "list_children"
         /\ scan_state # 0)
              => /\ ~probed'
                 /\ scan_state' = scan_state ]_vars


----------------------------------------------------------------------------
(* Claims about acquiring a USB connection.                               *)

\* C13: when a USB device node has to create the connection node `name`,
\* it opens the connection on its own handle if the handle supports the
\* type; otherwise it re-resolves the device by its serial number if one is
\* known; otherwise it scans, and unless exactly one attached device
\* supports the type it raises ValueError after the scan alone, with no
\* connection opened and no node constructed.
C13_AcquisitionOrder ==
    [][ (subtree = "usb" /\ op' = "navigate" /\ dv_acq'.name # "none")
        => /\ dv_acq'.name \in dv_supports
                => dv_acq'.log[1] = "open_connection"
           /\ (dv_acq'.name \notin dv_supports /\ dv_info = "serial")
                => dv_acq'.log[1] = "connect_to_device(serial)"
           /\ (dv_acq'.name \notin dv_supports /\ dv_info # "serial")
                => /\ dv_acq'.log[1] = "scan_devices"
                   /\ dv_acq'.count = 1
                        => dv_acq'.log[2] = "connect_to_device()"
                   /\ dv_acq'.count # 1
                        => /\ dv_acq'.log = <<"scan_devices">>
                           /\ outcome' = "ValueError"
                           /\ ~constructed'
                           /\ dv_child' = "none"
                           /\ dv_open'[dv_acq'.name]
                                = dv_open[dv_acq'.name] ]_vars

\* an acquisition that found two candidate devices and refused
C13_Ambiguous ==
    /\ subtree = "usb"
    /\ op = "navigate"
    /\ dv_acq.name \in ConnTypes \ dv_supports
    /\ dv_info = "noserial"
    /\ dv_acq.count = 2
    /\ outcome = "ValueError"
    /\ OpenCount(dv_open) = 0

----------------------------------------------------------------------------
(* Claims about closing a connection node.                                 *)

\* C14: after ConnectionNode.close has been called, whether it returned or
\* raised while closing the child, the connection the node owns is closed;
\* and the connection is closed by no other step than that close.
C14_CloseAlwaysCloses ==
    [][ /\ op' = "conn_close" => ~cn_open'
        /\ (cn_open /\ ~cn_open') => op' = "conn_close" ]_vars

\* what holds: a close that returns has closed the connection, and nothing
\* else closes it
C14_ReturnedCloseCloses ==
    [][ /\ (op' = "conn_close" /\ outcome' = "closed") => ~cn_open'
        /\ (cn_open /\ ~cn_open') => op' = "conn_close" ]_vars

\* a close that raised while closing the child and left the connection open
C14_FailedClose ==
    /\ op = "conn_close"
    /\ outcome = "error"
    /\ cn_open

----------------------------------------------------------------------------
(* FidoNode: the PIN it holds and the permission tokens it derives         *)

\* the PINs a caller may present
NumPins == 2

\* the tokens derived through one FidoNode are capped
MaxTokens == 3

Pins == 1..NumPins

Permissions == {"GET_ASSERTION", "BIO_ENROLL", "CREDENTIAL_MGMT"}

\* ClientPin.get_pin_token / change_pin: the device accepts the PIN
PinAccepted(pin) == pin # 0 /\ pin = hw_pin

\* a FidoNode that asks for the credential-management permission in both
\* children
PermissionForShared(name) == "CREDENTIAL_MGMT"

\* the permission each child asks its token for
PermissionFor(name) ==
    IF name = "fingerprints" THEN "BIO_ENROLL" ELSE "CREDENTIAL_MGMT"

NoSession == [kind |-> "none", token |-> 0]

PinInit ==
    /\ subtree = "pin"
    /\ op = "init"
    /\ usb = {}
    /\ seed = 0
    /\ caching = FALSE
    /\ scan_state = 0
    /\ list_state = 0
    /\ devices = {}
    /\ device_mapping = {}
    /\ dn_pc = "idle"
    /\ nfc = {}
    /\ rd_state = {}
    /\ readers = {}
    /\ reader_mapping = {}
    /\ HistInit
    /\ ResInit
    /\ DeviceIdle
    /\ ConnIdle
    /\ FidoIdle
    /\ OtpIdle
    \* no add action is running (BioIdle)
    /\ bio_pc = "idle"
    /\ bio_name = "none"
    /\ bio_template = 0
    /\ en_template = 0
    /\ en_remaining = "none"
    /\ bio_event = FALSE
    /\ bio_raced = FALSE
    /\ bio_code = "none"
    /\ bio_log = <<>>
    /\ bio_result = 0
    /\ bio_named = FALSE
    /\ bio_before = {}
    \* FidoNode.__init__: self._pin = None; the device has a PIN or not
    /\ hw_pin \in 0..NumPins
    /\ fd_pin = 0
    /\ pn_child = "none"
    /\ pn_tokens = <<>>
    /\ pn_session = NoSession

\* what the steps on the PIN leave alone
notPinVars == <<subtree, enumVars, devVars, connVars, fidoVars, bioVars,
                otpVars>>

\* an action of the FidoNode answered: it closed the child first
PinActionDone(ok) ==
    /\ pn_child' = "none"
    /\ pn_session' = NoSession
    /\ outcome' = IF ok THEN "done" ELSE "error"
    /\ raised' = FALSE
    /\ nosuch' = "none"
    /\ constructed' = FALSE

\* FidoNode.verify_pin: a get-assertion token is derived with the PIN, and
\* the PIN is stored when that did not raise
PinVerify(pin) ==
    /\ subtree = "pin"
    /\ Len(pn_tokens) < MaxTokens
    /\ IF PinAccepted(pin)
       THEN /\ pn_tokens' = Append(pn_tokens, "GET_ASSERTION")
            /\ fd_pin' = pin
       ELSE UNCHANGED <<pn_tokens, fd_pin>>
    /\ PinActionDone(PinAccepted(pin))
    /\ op' = "verify_pin"
    /\ UNCHANGED <<notPinVars, hw_pin>>

\* FidoNode.set_pin: change_pin with the presented PIN when the device has
\* one, set_pin when it has none
PinSet(pin, new_pin) ==
    /\ subtree = "pin"
    /\ hw_pin = 0 => pin = 0
    /\ LET ok == hw_pin = 0 \/ PinAccepted(pin)
       IN  /\ hw_pin' = IF ok THEN new_pin ELSE hw_pin
           /\ PinActionDone(ok)
    /\ op' = "set_pin"
    /\ UNCHANGED <<notPinVars, fd_pin, pn_tokens>>

\* FidoNode.fingerprints and FidoNode.credentials via get_child: a token
\* is derived from the held PIN and handed to the session of the child
PinNavigate(name) ==
    /\ subtree = "pin"
    /\ IF ~CreatesChild(pn_child, pn_child, name)
       THEN /\ outcome' = "node"
            /\ constructed' = FALSE
            /\ UNCHANGED <<pn_child, pn_tokens, pn_session>>
       ELSE IF PinAccepted(fd_pin)
       THEN /\ Len(pn_tokens) < MaxTokens
            /\ pn_tokens' = Append(pn_tokens, PermissionFor(name))
            /\ pn_session' = [kind |-> name, token |-> Len(pn_tokens')]
            /\ pn_child' = name
            /\ outcome' = "node"
            /\ constructed' = TRUE
       ELSE /\ pn_child' = "none"
            /\ pn_session' = NoSession
            /\ outcome' = "error"
            /\ constructed' = FALSE
            /\ UNCHANGED pn_tokens
    /\ raised' = FALSE
    /\ nosuch' = "none"
    /\ op' = "pin_navigate"
    /\ UNCHANGED <<notPinVars, hw_pin, fd_pin>>

PinNext ==
    \/ \E pin \in Pins : PinVerify(pin)
    \/ \E pin \in 0..NumPins : \E new_pin \in Pins : PinSet(pin, new_pin)
    \/ \E name \in {"fingerprints", "credentials"} : PinNavigate(name)

SpecPin == PinInit /\ [][PinNext]_vars

----------------------------------------------------------------------------
(* Claims about the permission tokens and the held PIN.                    *)

\* C15: a navigation that constructs the credentials or the fingerprints
\* child derives one new token, with the credential-management or the
\* bio-enroll permission, and hands that token to the child's session; a
\* session never holds a token of another permission (the get-assertion
\* token of verify_pin included), and once the child is gone no token is
\* kept.
C15_ScopedFreshTokens ==
    [][ /\ (op' = "pin_navigate" /\ constructed')
            => /\ Len(pn_tokens') = Len(pn_tokens) + 1
               /\ pn_session'.token = Len(pn_tokens')
               /\ pn_session'.kind = pn_child'
        /\ pn_session'.kind = "credentials"
            => pn_tokens'[pn_session'.token] = "CREDENTIAL_MGMT"
        /\ pn_session'.kind = "fingerprints"
            => pn_tokens'[pn_session'.token] = "BIO_ENROLL"
        /\ pn_child' = "none" => pn_session' = NoSession ]_vars

\* the fingerprints child constructed after verify_pin and the credentials
\* child: three tokens, one per permission
C15_Witness ==
    /\ op = "pin_navigate"
    /\ constructed
    /\ pn_session = [kind |-> "fingerprints", token |-> 3]
    /\ pn_tokens = <<"GET_ASSERTION", "CREDENTIAL_MGMT", "BIO_ENROLL">>

\* C20: a PIN held by the FidoNode is the PIN the device accepts.
C20_HeldPinAccepted ==
    (subtree = "pin" /\ fd_pin # 0) => fd_pin = hw_pin

\* what holds: the PIN is stored only by a verify_pin the device accepted,
\* and a failed verify_pin leaves it as it was
C20_StoredWhenVerified ==
    [][ /\ fd_pin' # fd_pin
            => (op' = "verify_pin" /\ outcome' = "done" /\ fd_pin' = hw_pin)
        /\ (op' = "verify_pin" /\ outcome' = "error")
            => fd_pin' = fd_pin ]_vars

\* the held PIN is presented for a subtree and the device rejects it
C20_StalePinRejected ==
    /\ op = "pin_navigate"
    /\ outcome = "error"
    /\ fd_pin # 0
    /\ fd_pin # hw_pin

----------------------------------------------------------------------------
(* Claims about the identifiers the enumerators issue.                     *)

\* the identifiers of the mapping m stand one to one for the handles hs,
\* and the summaries listed have the same identifiers
OnePerHandle(m, listing, hs) ==
    /\ IsDict(m)
    /\ Cardinality(m) = Cardinality(hs)
    /\ Values(m) = hs
    /\ Keys(listing) = Keys(m)

\* C16: after every rebuild of an enumerator's mapping there is exactly one
\* identifier per visible device or reader, the listed summaries and the
\* handles have the same identifiers, and so every listed identifier
\* resolves in create_child to the handle it was issued for, whatever the
\* random identifiers were.
C16_NoCollisions ==
    [][ (op' = "list_children" /\ rebuilt')
        => /\ subtree = "nfc"
               => OnePerHandle(reader_mapping', readers', Filtered(nfc))
           /\ subtree = "usb"
               => OnePerHandle(device_mapping', devices', usb) ]_vars

\* what holds: the identifiers of the USB enumerator never collide, and the
\* two mappings of either enumerator have the same identifiers
C16_UsbNoCollisions ==
    [][ (op' = "list_children" /\ rebuilt')
        => /\ subtree = "usb"
               => OnePerHandle(device_mapping', devices', usb)
           /\ subtree = "nfc"
               => /\ IsDict(reader_mapping')
                  /\ Keys(readers') = Keys(reader_mapping') ]_vars

\* two readers attached, one identifier issued: a reader is not listed
C16_ReaderLost ==
    /\ subtree = "nfc"
    /\ op = "list_children"
    /\ rebuilt
    /\ Cardinality(Filtered(nfc)) = 2
    /\ Cardinality(readers) = 1

----------------------------------------------------------------------------
(* Claims about the fido child of a reader device.                         *)

\* C17: constructing the fido child of a reader device opens a smartcard
\* connection first, reads the device info over it and closes it, and only
\* then opens the FIDO connection; when the probe fails no FIDO connection
\* is opened, no connection node is constructed and the probe connection
\* is not left open.
C17_ProbeBeforeFido ==
    [][ (subtree = "nfc" /\ op' = "navigate" /\ dv_acq'.name = "fido")
        => /\ dv_acq'.log[1] = "open_ccid"
           /\ constructed'
                => /\ dv_acq'.log = <<"open_ccid", "read_info", "close_ccid",
                                      "open_fido">>
                   /\ dv_open'["fido"] = dv_open["fido"] + 1
           /\ Len(dv_acq'.log) < 4
                => /\ \A i \in 1..Len(dv_acq'.log) :
                          dv_acq'.log[i] # "open_fido"
                   /\ Len(dv_acq'.log) = 3 => dv_acq'.log[3] = "close_ccid"
                   /\ ~constructed'
                   /\ dv_child' = "none"
                   /\ dv_open'["fido"] = dv_open["fido"]
           /\ dv_open'["ccid"] <= dv_open["ccid"] ]_vars

\* the probe failed in read_info: the call is answered NoSuchNode and no
\* connection is open
C17_ProbeFailed ==
    /\ subtree = "nfc"
    /\ op = "navigate"
    /\ dv_acq.name = "fido"
    /\ dv_acq.log = <<"open_ccid", "read_info", "close_ccid">>
    /\ outcome = "NoSuchNode"
    /\ ~constructed
    /\ OpenCount(dv_open) = 0

----------------------------------------------------------------------------
(* Claims about the connections open through a device node.                *)

C19_OnePerResolvedChild ==
    \A t \in ConnTypes : dv_child = t => dv_open[t] >= 1

\* the child was dropped on a transport error and resolved again: two
\* connections to its interface are open
C19_SecondConnection ==
    /\ op = "navigate"
    /\ constructed
    /\ dv_child # "none"
    /\ dv_open[dv_child] = 2

----------------------------------------------------------------------------
(* FingerprintsNode.add as a loop: its control state alone, with no cap on *)
(* the capture rounds and no record of the signals                         *)

AddInit ==
    /\ subtree = "add"
    /\ op = "init"
    /\ usb = {}
    /\ seed = 0
    /\ caching = FALSE
    /\ scan_state = 0
    /\ list_state = 0
    /\ devices = {}
    /\ device_mapping = {}
    /\ dn_pc = "idle"
    /\ nfc = {}
    /\ rd_state = {}
    /\ readers = {}
    /\ reader_mapping = {}
    /\ HistInit
    /\ ResInit
    /\ DeviceIdle
    /\ ConnIdle
    /\ BioIdle
    /\ PinIdle
    /\ OtpIdle
    /\ hw_creds = {}
    /\ hw_templates \in SUBSET (TemplateIds \X {"x"})
    /\ fd_child = "fingerprints"
    /\ rps = {}
    /\ rps_child = 0
    /\ creds = {}
    /\ rp_child = 0
    /\ templates = FingerprintsRefresh({}, hw_templates)
    /\ fps_child = 0
    /\ fp_name = "none"
    /\ fd_target = 0
    /\ fd_external = FALSE

\* what the steps of the loop leave alone
notAddVars == <<notBioVars, bio_log, bio_before, bio_named, bio_result>>

\* add is invoked: name = params.get("name"), enroller = self.bio.enroll()
AddInvoke(name) ==
    /\ subtree = "add"
    /\ bio_pc = "idle"
    /\ bio_pc' = "signal"
    /\ bio_name' = name
    /\ bio_template' = 0
    /\ en_template' = 0
    /\ en_remaining' = -1
    /\ bio_event' = FALSE
    /\ bio_raced' = FALSE
    /\ bio_code' = "none"
    /\ outcome' = "running"
    /\ op' = "add"
    /\ UNCHANGED <<notAddVars, hw_templates, templates>>

\* signal("capture", remaining=enroller.remaining)
AddSignalCapture ==
    /\ subtree = "add"
    /\ bio_pc = "signal"
    /\ bio_pc' = "capture"
    /\ op' = "signal"
    /\ UNCHANGED <<notAddVars, hw_templates, templates, outcome, bio_name,
                   bio_template, en_template, en_remaining, bio_event,
                   bio_raced, bio_code>>

\* template_id = enroller.capture(event) returns or raises; the event is
\* looked at by capture only, and a cancellation needs the event set
AddCapture(result, t, r, code) ==
    /\ subtree = "add"
    /\ bio_pc = "capture"
    /\ IF result \in {"cancel", "failure"}
       THEN t = 1
       ELSE IF en_template = 0
       THEN t \notin Keys(hw_templates)
       ELSE t = en_template
    /\ result \in {"error", "partial"} => r >= 1
    /\ result \in {"done", "cancel", "failure"} => r = 0
    /\ (result = "error") = (code # "none")
    /\ result = "cancel" => bio_event
    /\ bio_raced' = FALSE
    /\ IF result \in {"error", "partial", "done"}
       THEN /\ en_template' = t
            /\ en_remaining' = r
       ELSE UNCHANGED <<en_template, en_remaining>>
    /\ IF Caught(result)
       THEN /\ bio_code' = code
            /\ bio_pc' = "error_signal"
            /\ UNCHANGED <<bio_template, hw_templates, outcome>>
       ELSE IF result = "partial"
       THEN /\ bio_pc' = "signal"
            /\ UNCHANGED <<bio_template, hw_templates, outcome, bio_code>>
       ELSE IF result = "done"
       THEN /\ bio_template' = t
            /\ hw_templates' = Put(hw_templates, t, "none")
            /\ bio_pc' = "name"
            /\ UNCHANGED <<outcome, bio_code>>
       ELSE /\ BioRaises(IF result = "cancel" THEN "cancelled" ELSE "error")
            /\ UNCHANGED <<bio_template, hw_templates, bio_code>>
    /\ op' = "capture"
    /\ UNCHANGED <<notAddVars, templates, bio_name, bio_event>>

\* except CaptureError as e: signal("capture-error", code=e.code)
AddSignalError ==
    /\ subtree = "add"
    /\ bio_pc = "error_signal"
    /\ bio_pc' = "signal"
    /\ op' = "signal_error"
    /\ UNCHANGED <<notAddVars, hw_templates, templates, outcome, bio_name,
                   bio_template, en_template, en_remaining, bio_event,
                   bio_raced, bio_code>>

\* after the loop: set_name, the entry in self._templates, the result
AddFinish(ok) ==
    /\ subtree = "add"
    /\ bio_pc = "name"
    /\ ~ok => bio_name # "none"
    /\ hw_templates' = IF ok /\ bio_name # "none"
                       THEN Put(hw_templates, bio_template, bio_name)
                       ELSE hw_templates
    /\ IF ok
       THEN /\ templates' = Put(templates, bio_template, bio_name)
            /\ bio_pc' = "idle"
            /\ outcome' = "result"
       ELSE /\ BioRaises("error")
            /\ UNCHANGED templates
    /\ op' = "finish"
    /\ UNCHANGED <<notAddVars, bio_name, bio_template, en_template,
                   en_remaining, bio_event, bio_raced, bio_code>>

\* the caller sets the cancellation event while add runs
AddCancel ==
    /\ subtree = "add"
    /\ bio_pc # "idle"
    /\ ~bio_event
    /\ bio_event' = TRUE
    /\ bio_raced' = (bio_pc = "capture")
    /\ op' = "cancel"
    /\ UNCHANGED <<notAddVars, hw_templates, templates, outcome, bio_pc,
                   bio_name, bio_template, en_template, en_remaining,
                   bio_code>>

\* enroller.capture(event) with its results
AddCaptureReturns ==
    \E result \in CaptureResults : \E t \in TemplateIds :
        \E r \in 0..MaxRemaining : \E code \in Codes \cup {"none"} :
            AddCapture(result, t, r, code)

AddNext ==
    \/ \E name \in {"none", "x"} : AddInvoke(name)
    \/ AddSignalCapture
    \/ AddCaptureReturns
    \/ AddSignalError
    \/ \E ok \in BOOLEAN : AddFinish(ok)
    \/ AddCancel

\* add runs in one thread from statement to statement, and every capture
\* attempt returns
AddFairness ==
    /\ WF_vars(AddSignalCapture)
    /\ WF_vars(AddCaptureReturns)
    /\ WF_vars(AddSignalError)
    /\ WF_vars(\E ok \in BOOLEAN : AddFinish(ok))

SpecAddFair == AddInit /\ [][AddNext]_vars /\ AddFairness

----------------------------------------------------------------------------
(* Claims about the end of add after a cancellation.                       *)

\* C18: once the cancellation has been requested while add runs, add
\* eventually ends, given that every capture attempt returns.
C18_CancelEndsAdd ==
    (subtree = "add" /\ bio_event /\ bio_pc # "idle") ~> (bio_pc = "idle")

\* what holds: an add that has been cancelled goes on only by starting a
\* capture round after an attempt returned a sample or a CaptureError
C18_OnlySamplesGoOn ==
    [][ (subtree = "add" /\ bio_event /\ op' = "capture")
        => \/ bio_pc' \in {"idle", "name"}
           \/ en_remaining' >= 1 ]_vars

\* a capture attempt begun after the cancellation has returned a
\* CaptureError, and the loop is about to start another round
C18_RoundAfterCancel ==
    /\ subtree = "add"
    /\ bio_event
    /\ ~bio_raced
    /\ op = "capture"
    /\ bio_pc = "error_signal"

----------------------------------------------------------------------------
(* Claims about a child construction that fails.                           *)

\* C21: when the construction of a connection node fails, no connection
\* it opened is left open: no interface has more open connections after
\* the failed navigation than before it.
C21_FailedCreateClosesConnection ==
    [][ (op' = "navigate" /\ dv_acq'.name # "none" /\ ~constructed')
        => \A t \in ConnTypes : dv_open'[t] <= dv_open[t] ]_vars

\* what holds: only the ccid child of a reader device leaves its
\* connection open, when read_info fails
C21_OnlyReaderCcidLeaks ==
    [][ (op' = "navigate" /\ dv_acq'.name # "none" /\ ~constructed'
         /\ ~(subtree = "nfc" /\ dv_acq'.name = "ccid"))
        => \A t \in ConnTypes : dv_open'[t] <= dv_open[t] ]_vars

\* read_info failed in ReaderDeviceNode.ccid: the call is answered
\* NoSuchNode, no child is held and the connection is open
C21_ConnectionLeftOpen ==
    /\ subtree = "nfc"
    /\ op = "navigate"
    /\ dv_acq = [name |-> "ccid", count |-> 1,
                 log |-> <<"open_ccid", "read_info">>]
    /\ ~constructed
    /\ dv_child = "none"
    /\ dv_open["ccid"] = 1

----------------------------------------------------------------------------
(* Claims about the template cache after add.                              *)

\* C22: once add has ended, by result or by error, a template id that a
\* capture of this add produced is in the template cache of the node, with
\* the name the device holds for it.
C22_CacheHoldsCreated ==
    (subtree = "bio" /\ bio_pc = "idle" /\ bio_template # 0)
        => /\ bio_template \in Keys(templates)
           /\ Lookup(templates, bio_template)
                = Lookup(hw_templates, bio_template)

\* what holds: an add that returned its result has put the template in the
\* cache with its name
C22_ResultIsCached ==
    (subtree = "bio" /\ bio_pc = "idle" /\ outcome = "result")
        => /\ bio_result \in Keys(hw_templates)
           /\ bio_result \in Keys(templates)
           /\ Lookup(templates, bio_result) = bio_name
           /\ Lookup(hw_templates, bio_result) = bio_name

\* set_name failed: the template is on the device and not in the cache
C22_NameFailed ==
    /\ subtree = "bio"
    /\ op = "finish"
    /\ bio_pc = "idle"
    /\ outcome = "error"
    /\ bio_template \in Keys(hw_templates)
    /\ bio_template \notin Keys(templates)

=========================================================================
